---- MODULE Spec2Model ----
(***************************************************************************)
(* State-machine model of the Optima view-based RUM SDK                    *)
(* (src/Vuex-GOARABGO/vuex-goarabgo/src/store/actions.js).                 *)
(*                                                                         *)
(* The program state is carried through the handlers as one record `st'    *)
(* whose fields are the variables below; every handler of the source is a  *)
(* pure operator from state record to state record and every action        *)
(* applies one complete handler to the current state.  Times are           *)
(* milliseconds on the performance.now() clock; a time of 0 stands for a   *)
(* null/absent time, which is how the source's truthiness tests read it.   *)
(* The host page is taken to call init once.                               *)
(***************************************************************************)
EXTENDS Integers, Sequences, FiniteSets, TLC

\* ---------------------------------------------------------------- bounds
MaxViews == 2
MaxTicks == 2
MaxEvents == 3
MaxPending == 1
MaxSends == 4
MaxHistoryViews == 12
MaxUpdates == 3
MaxTransitionViews == 4

\* ------------------------------------------------------ program constants
maxViewHistory == 10
userInteractionTimeout == 5000
mutationDebounce == 50
lcpFallbackDelay == 100
fidFallbackDelay == 1000
fcpFallbackDelay == 1000
maxBatchSize == 3
updateIntervalMs == 10000
continuousUpdateDelay == 3000
sessionCleanupDelay == 30000
vitalCheckDelay == 100
clsCheckDelay == 1000
inpCheckDelay == 500
\* significantChangeThresholds: CLS 0.01 (CLS values are in hundredths), INP 50 ms
clsChangeThreshold == 1
inpChangeThreshold == 50
batchTimeout == 5000
batchStagger == 100
processingResetDelay == 500
quietPeriod == 200
maxWaitTime == 20000
pendingResourceDelay == 50
fetchStart == 0

\* ------------------------------------------------------------ environment
Steps == {50, 1000}

Metrics == {"LCP", "FID", "CLS", "FCP", "INP", "TTFB", "loading_time"}
InitialOnlyMetrics == {"LCP", "FID", "FCP", "TTFB"}

Url(p, s, h) == [origin |-> "https://app.example", pathname |-> p, search |-> s,
                 hash |-> h]
Hrefs == {Url("/", "", <<>>), Url("/about", "", <<>>),
          Url("/", "?q=1", <<>>), Url("/", "", <<"#", "t">>)}
HomeUrl == Url("/", "", <<>>)
AboutUrl == Url("/about", "", <<>>)

ResourceUrls == {"/app.js", "/api/data", "/api/optima/collect"}

\* sig holds the arguments and the result of one evaluation of
\* hasSignificantChanges on given metrics.
VARIABLES now, ticks, viewBudget, sig, href, sdk, views, currentView, viewHistory,
          rd, rc, wv, lt, cm, ds, perf

vars == <<now, ticks, viewBudget, sig, href, sdk, views, currentView, viewHistory,
          rd, rc, wv, lt, cm, ds, perf>>

Cur == [now |-> now, href |-> href, sdk |-> sdk, views |-> views,
        currentView |-> currentView, viewHistory |-> viewHistory,
        rd |-> rd, rc |-> rc, wv |-> wv, lt |-> lt, cm |-> cm, ds |-> ds,
        perf |-> perf]

Set(s) ==
  /\ now' = s.now
  /\ href' = s.href
  /\ sdk' = s.sdk
  /\ views' = s.views
  /\ currentView' = s.currentView
  /\ viewHistory' = s.viewHistory
  /\ rd' = s.rd
  /\ rc' = s.rc
  /\ wv' = s.wv
  /\ lt' = s.lt
  /\ cm' = s.cm
  /\ ds' = s.ds
  /\ perf' = s.perf
  /\ UNCHANGED <<viewBudget, sig>>

\* ------------------------------------------------------------ ViewManager
NoVital == [value |-> 0, owner |-> 0]

CV(st) == st.views[st.currentView]

hasActiveView(st) == st.currentView # 0 /\ CV(st).isActive

createView(st, type, url, interactionBaseline, routeTriggerTime) ==
  [id |-> Len(st.views) + 1,
   type |-> type,
   url |-> url,
   startTime |-> st.now,
   timestamp |-> st.now,
   duration |-> 0,
   routeTriggerTime |-> routeTriggerTime,
   interactionBaseline |-> interactionBaseline,
   webVitals |-> [m \in Metrics |-> NoVital],
   resources |-> <<>>,
   ajaxRequests |-> <<>>,
   errors |-> <<>>,
   events |-> <<>>,
   isCompleted |-> FALSE,
   isActive |-> TRUE,
   lastActivityTime |-> st.now,
   completionReason |-> "none"]

updateActivity(st) ==
  IF hasActiveView(st)
  THEN [st EXCEPT !.views[st.currentView].lastActivityTime = st.now]
  ELSE st

addResource(st, resource) ==
  IF ~hasActiveView(st)
  THEN [st |-> st, ok |-> FALSE]
  ELSE [st |-> updateActivity(
                 [st EXCEPT !.views[st.currentView].resources = Append(@, resource)]),
        ok |-> TRUE]

addAjaxRequest(st, ajax) ==
  IF ~hasActiveView(st)
  THEN [st |-> st, ok |-> FALSE]
  ELSE [st |-> updateActivity(
                 [st EXCEPT !.views[st.currentView].ajaxRequests = Append(@, ajax)]),
        ok |-> TRUE]

addError(st, error) ==
  IF ~hasActiveView(st)
  THEN [st |-> st, ok |-> FALSE]
  ELSE [st |-> updateActivity(
                 [st EXCEPT !.views[st.currentView].errors = Append(@, error)]),
        ok |-> TRUE]

\* addEvent without the active-view guard.
addEvent_unguarded(st, event) ==
  IF st.currentView = 0
  THEN [st |-> st, ok |-> FALSE]
  ELSE [st |-> updateActivity(
                 [st EXCEPT !.views[st.currentView].events = Append(@, event)]),
        ok |-> TRUE]

addEvent(st, event) ==
  IF ~hasActiveView(st)
  THEN [st |-> st, ok |-> FALSE]
  ELSE [st |-> updateActivity(
                 [st EXCEPT !.views[st.currentView].events = Append(@, event)]),
        ok |-> TRUE]

\* ContinuousMetricsManager.onWebVitalDetected: a setTimeout of
\* checkAndSendUpdates (cm.checks holds the due times).
onWebVitalDetected(st, vitalName) ==
  IF ~st.cm.exists THEN st
  ELSE IF ~st.cm.isTracking \/ ~hasActiveView(st) THEN st
  ELSE IF vitalName \in {"LCP", "FCP", "FID", "TTFB"}
  THEN IF CV(st).type = "initial"
       THEN [st EXCEPT !.cm.checks = @ \cup {st.now + vitalCheckDelay}]
       ELSE st
  ELSE IF vitalName \in {"CLS", "INP", "loading_time"}
  THEN [st EXCEPT !.cm.checks = @ \cup {st.now + vitalCheckDelay}]
  ELSE st

\* `owner' is the view whose collector set-up registered the writing
\* callback (the closure the callback runs in).
updateWebVital(st, metric, value, owner) ==
  IF ~hasActiveView(st)
  THEN [st |-> st, ok |-> FALSE]
  ELSE [st |-> onWebVitalDetected(
                 updateActivity(
                   [st EXCEPT !.views[st.currentView].webVitals[metric] =
                                  [value |-> value, owner |-> owner]]),
                 metric),
        ok |-> TRUE]

\* The history entry is a copy of the view whose four lists are replaced by
\* their lengths.
HistoryEntry(v) ==
  [v EXCEPT !.resources = Len(v.resources),
            !.ajaxRequests = Len(v.ajaxRequests),
            !.errors = Len(v.errors),
            !.events = Len(v.events)]

\* archiveView without the size limit.
archiveView_unlimited(st, id) ==
  [st EXCEPT !.viewHistory = Append(@, HistoryEntry(st.views[id]))]

\* archiveView with the error and event counts exchanged.
archiveView_exchanged(st, id) ==
  LET v == st.views[id]
      pushed == Append(st.viewHistory,
                       [HistoryEntry(v) EXCEPT !.errors = Len(v.events),
                                               !.events = Len(v.errors)])
  IN [st EXCEPT !.viewHistory =
        IF Len(pushed) > maxViewHistory THEN Tail(pushed) ELSE pushed]

archiveView(st, id) ==
  LET pushed == Append(st.viewHistory, HistoryEntry(st.views[id]))
  IN [st EXCEPT !.viewHistory =
        IF Len(pushed) > maxViewHistory THEN Tail(pushed) ELSE pushed]

\* ------------------------------------------------------ ViewBasedDataSender
shouldSendImmediately(viewType, trigger) ==
  \/ trigger = "new_view_started" /\ viewType = "route_change"
  \/ trigger = "route_change_trigger"
  \/ trigger \in {"page_unload", "page_hidden"}
  \/ trigger \in {"error", "critical_error"}

\* A send option set is [immediate, sync, batch].  ds.transmitted is the log
\* of the requests handed to the transport (sendBeacon or fetch), each with
\* its send options and whether the request reached the server.
SendOptions(immediate, sync, batch) ==
  [immediate |-> immediate, sync |-> sync, batch |-> batch]

\* A property a payload may lack (a view payload has no type and no
\* is_update_only, a continuous update has no trigger).
Get(data, field, absent) == IF field \in DOMAIN data THEN data[field] ELSE absent

\* ViewBasedOptima._sendToServer with _sendViaFetch: a failing request is a
\* false sendBeacon result or a rejected fetch promise, both handled inside;
\* nothing is thrown to the caller.
sendToServer(st, data, options) ==
  IF st.sdk.disabled THEN [st |-> st, threw |-> FALSE]
  ELSE [st |-> [st EXCEPT !.ds.transmitted =
                  Append(@, [object |-> data.object,
                             view |-> data.view,
                             trigger |-> Get(data, "trigger", "none"),
                             type |-> Get(data, "type", "none"),
                             is_update_only |-> Get(data, "is_update_only", FALSE),
                             timestamp |-> Get(data, "timestamp", 0),
                             send_timestamp |-> data.send_timestamp,
                             send_options |-> options,
                             delivered |-> st.perf.online])],
        threw |-> FALSE]

performSend(st, payload, options) ==
  LET r == sendToServer(st, payload, options)
  IN IF r.threw /\ options.immediate /\ ~options.sync
     THEN sendToServer(r.st, payload, SendOptions(FALSE, TRUE, FALSE)).st
     ELSE r.st

setBatchTimer(st) ==
  [st EXCEPT !.ds.batchTimer = st.now + batchTimeout]

processBatchQueue(st) ==
  IF st.ds.sendQueue = <<>> \/ st.ds.isProcessing THEN st
  ELSE LET batch == st.ds.sendQueue
       IN [st EXCEPT !.ds.isProcessing = TRUE,
                     !.ds.batchTimer = 0,
                     !.ds.sendQueue = <<>>,
                     !.ds.staggered = @ \cup
                        {[item |-> batch[i], index |-> i - 1,
                          due |-> st.now + (i - 1) * batchStagger]
                           : i \in 1..Len(batch)},
                     !.ds.processingReset = st.now + Len(batch) * batchStagger
                                              + processingResetDelay]

queueForBatch(st, item) ==
  LET s1 == [st EXCEPT !.ds.sendQueue = Append(@, item)]
  IN IF Len(s1.ds.sendQueue) >= maxBatchSize
     THEN processBatchQueue(s1)
     ELSE setBatchTimer(s1)

sendImmediate(st, payload) ==
  performSend(st, payload,
              SendOptions(TRUE, payload.trigger \in {"page_unload", "page_hidden"},
                          FALSE))

\* `object' is the identity of the payload object: the number of payloads
\* the sender has been asked to send, this one included.
formatViewPayload(st, id, trigger) ==
  [object |-> Len(st.ds.received) + 1, view |-> id, trigger |-> trigger,
   send_timestamp |-> st.now]

sendViewData(st, id, trigger) ==
  LET s0 == [st EXCEPT !.ds.received = Append(@, [view |-> id, trigger |-> trigger])]
      item == formatViewPayload(st, id, trigger)
  IN IF id = 0 \/ ~st.sdk.sessionId
     THEN s0
     ELSE LET s1 == [s0 EXCEPT !.ds.createdViewSessions = @ \cup {id}]
          IN IF shouldSendImmediately(st.views[id].type, trigger)
             THEN sendImmediate(s1, item)
             ELSE queueForBatch(s1, item)

RECURSIVE flushQueue(_, _)
flushQueue(st, i) ==
  IF i > Len(st.ds.sendQueue) THEN st
  ELSE flushQueue(performSend(st, [st.ds.sendQueue[i] EXCEPT !.trigger = "force_flush"],
                              SendOptions(TRUE, TRUE, FALSE)),
                  i + 1)

forceFlush(st) ==
  [flushQueue(st, 1) EXCEPT !.ds.sendQueue = <<>>, !.ds.batchTimer = 0]

sender_cleanup(st) ==
  [forceFlush(st) EXCEPT !.ds.batchTimer = 0,
                         !.ds.createdViewSessions = {},
                         !.ds.isProcessing = FALSE]

\* ds.sessionTimers holds the setTimeout callbacks that delete a view from
\* createdViewSessions.
markViewCompleted(st, id) ==
  IF id \in st.ds.createdViewSessions
  THEN [st EXCEPT !.ds.sessionTimers = @ \cup
                     {[view |-> id, due |-> st.now + sessionCleanupDelay]}]
  ELSE st

\* sendContinuousUpdate that does not mark the view's session as created.
sender_sendContinuousUpdate_unmarked(st, update) ==
  IF ~st.sdk.sessionId THEN st
  ELSE LET hasSessionCreated == update.view_id \in st.ds.createdViewSessions
           payload == [object |-> 0 - (st.ds.produced + 1),
                       view |-> update.view_id,
                       type |-> "continuous_update",
                       timestamp |-> update.timestamp,
                       send_timestamp |-> st.now,
                       is_update_only |-> hasSessionCreated]
           s1 == [st EXCEPT !.ds.produced = @ + 1]
       IN IF hasSessionCreated
          THEN [s1 EXCEPT !.ds.delayed = @ \cup
                  {[payload |-> payload, due |-> st.now + continuousUpdateDelay]}]
          ELSE performSend(s1, payload, SendOptions(TRUE, FALSE, FALSE))

\* ViewBasedDataSender.sendContinuousUpdate.  ds.produced counts the payload
\* objects built (a continuous payload's identity is a negative number);
\* ds.delayed holds the setTimeout callbacks that send a delayed payload.
sender_sendContinuousUpdate(st, update) ==
  IF ~st.sdk.sessionId THEN st
  ELSE LET hasSessionCreated == update.view_id \in st.ds.createdViewSessions
           payload == [object |-> 0 - (st.ds.produced + 1),
                       view |-> update.view_id,
                       type |-> "continuous_update",
                       timestamp |-> update.timestamp,
                       send_timestamp |-> st.now,
                       is_update_only |-> hasSessionCreated]
           s1 == [st EXCEPT !.ds.produced = @ + 1,
                            !.ds.createdViewSessions = @ \cup {update.view_id}]
       IN IF hasSessionCreated
          THEN [s1 EXCEPT !.ds.delayed = @ \cup
                  {[payload |-> payload, due |-> st.now + continuousUpdateDelay]}]
          ELSE performSend(s1, payload, SendOptions(TRUE, FALSE, FALSE))

\* sdk.viewStart is the sequence of calls made by the latest startNewView,
\* each entered when the call is made; sdk.attachedAtInstall is what was
\* attached to the page when that call assigned currentView.
Did(st, call) == [st EXCEPT !.sdk.viewStart = Append(@, call)]

handleViewCompleted(st, id, reason) ==
  LET s0 == [st EXCEPT !.sdk.handlerLog = Append(@, [view |-> id, reason |-> reason])]
  IN markViewCompleted(sendViewData(s0, id, reason), id)

\* completeView without the already-completed guard.
completeView_unguarded(st, reason) ==
  IF st.currentView = 0
  THEN st
  ELSE LET id == st.currentView
           s1 == [Did(st, "completeView") EXCEPT !.views[id].isCompleted = TRUE,
                            !.views[id].isActive = FALSE,
                            !.views[id].completionReason = reason,
                            !.views[id].duration = st.now - st.views[id].timestamp]
           s2 == archiveView(s1, id)
       IN IF s2.sdk.onViewCompleted
          THEN handleViewCompleted(s2, id, reason)
          ELSE s2

completeView(st, reason) ==
  IF st.currentView = 0 \/ CV(st).isCompleted
  THEN st
  ELSE LET id == st.currentView
           s1 == [Did(st, "completeView") EXCEPT !.views[id].isCompleted = TRUE,
                            !.views[id].isActive = FALSE,
                            !.views[id].completionReason = reason,
                            !.views[id].duration = st.now - st.views[id].timestamp]
           s2 == archiveView(s1, id)
       IN IF s2.sdk.onViewCompleted
          THEN handleViewCompleted(s2, id, reason)
          ELSE s2

isInExclusionList(url) == url = "/api/optima/collect"

\* --------------------------------------------- ViewScopedLoadingTimeTracker
\* lt.trackers        every tracker constructed so far, in construction order
\* lt.current         webVitalsCollector.loadingTimeTracker (0 for null)
\* lt.xhrOpen / lt.xhrSend / lt.fetch
\*                    the functions now installed as XMLHttpRequest.prototype
\*                    .open/.send and window.fetch: 0 is the function the page
\*                    had before any tracker started, n > 0 is the wrapper
\*                    installed by tracker n
\* lt.resourceTimers  the 50 ms callbacks that delete a pending resource
\* A captured original is <<>> for null and <<f>> for the function f.  Tracker
\* times are on the performance.now() clock (performance.timeOrigin is a
\* constant offset of every time the tracker compares).
NewTracker ==
  [view |-> 0, viewType |-> "none", baselineTime |-> 0, lastActivityTime |-> 0,
   isComplete |-> FALSE, isTracking |-> FALSE, reason |-> "none", updates |-> 0,
   activitySources |-> {}, checkInterval |-> 0, timeout |-> 0,
   observing |-> FALSE, queue |-> <<>>,
   pendingRequests |-> {}, pendingResources |-> {},
   originalXHROpen |-> <<>>, originalXHRSend |-> <<>>, originalFetch |-> <<>>]

startCompletionCheck(st, n) ==
  [st EXCEPT !.lt.trackers[n].checkInterval = st.now + quietPeriod]

recordActivity(st, n, source) ==
  LET t == st.lt.trackers[n]
  IN IF t.isComplete \/ ~t.isTracking THEN st
     ELSE startCompletionCheck(
            [st EXCEPT !.lt.trackers[n].lastActivityTime = st.now,
                       !.lt.trackers[n].activitySources = @ \cup {source}], n)

\* The body both resource notifications run for one entry.
trackResource(st, n, entry) ==
  IF entry.startTime >= st.lt.trackers[n].baselineTime
  THEN LET s1 == [st EXCEPT !.lt.trackers[n].pendingResources = @ \cup {entry.name}]
           s2 == recordActivity(s1, n, "resource")
       IN [s2 EXCEPT !.lt.resourceTimers = @ \cup
             {[tracker |-> n, name |-> entry.name,
               due |-> st.now + pendingResourceDelay]}]
  ELSE st

RECURSIVE trackResources(_, _, _, _)
trackResources(st, n, entries, i) ==
  IF i > Len(entries) THEN st
  ELSE trackResources(trackResource(st, n, entries[i]), n, entries, i + 1)

\* The tracker's own resource PerformanceObserver callback.
trackerResourceObserver(st, n, entries) ==
  LET t == st.lt.trackers[n]
  IN IF t.isComplete \/ ~t.isTracking THEN st
     ELSE trackResources(st, n, entries, 1)

notifyLoadingTimeTracker(st, entries) ==
  IF st.lt.current = 0 THEN st
  ELSE LET t == st.lt.trackers[st.lt.current]
       IN IF ~t.isTracking \/ t.isComplete THEN st
          ELSE trackResources(st, st.lt.current, entries, 1)

notifyLoadingTimeTrackerAboutExistingResources(st, entries) ==
  notifyLoadingTimeTracker(st, entries)

tracker_setupResourceObserver(st, n) ==
  [st EXCEPT !.lt.trackers[n].observing = TRUE, !.lt.trackers[n].queue = <<>>]

setupXHRMonitoring(st, n) ==
  [st EXCEPT !.lt.trackers[n].originalXHROpen = <<st.lt.xhrOpen>>,
             !.lt.trackers[n].originalXHRSend = <<st.lt.xhrSend>>,
             !.lt.xhrOpen = n,
             !.lt.xhrSend = n]

setupFetchMonitoring(st, n) ==
  [st EXCEPT !.lt.trackers[n].originalFetch = <<st.lt.fetch>>,
             !.lt.fetch = n]

\* The tracker's MutationObserver is connected and disconnected together with
\* its resource observer (both are in this.observers).
tracker_setupMutationObserver(st, n) == st

\* A call of the function f installed as XMLHttpRequest.prototype.send
\* (kind "xhr") or window.fetch (kind "fetch"): wrapper n records the request
\* and calls the original it captured.
RECURSIVE callWrapped(_, _, _, _)
callWrapped(st, f, kind, request) ==
  IF f = 0 THEN st
  ELSE LET t == st.lt.trackers[f]
           original == IF kind = "xhr" THEN t.originalXHRSend[1]
                       ELSE t.originalFetch[1]
       IN IF t.isComplete \/ ~t.isTracking
          THEN callWrapped(st, original, kind, request)
          ELSE IF isInExclusionList(request.name)
          THEN callWrapped(st, original, kind, request)
          ELSE LET requestId == [kind |-> kind, name |-> request.name,
                                 startTime |-> request.startTime]
                   s1 == [st EXCEPT !.lt.trackers[f].pendingRequests =
                                       @ \cup {requestId}]
               IN callWrapped(recordActivity(s1, f, kind), original, kind, request)

\* loadend / error / abort listener of an XHR, .finally of a fetch.
requestSettled(st, request) ==
  [st EXCEPT !.lt.trackers =
     [n \in DOMAIN @ |->
        [@[n] EXCEPT !.pendingRequests =
           {r \in @ : ~(r.name = request.name /\ r.startTime = request.startTime)}]]]

tracker_cleanup(st, n) ==
  LET t == st.lt.trackers[n]
      s1 == [st EXCEPT !.lt.trackers[n].checkInterval = 0,
                       !.lt.trackers[n].observing = FALSE,
                       !.lt.trackers[n].queue = <<>>]
      s2 == IF t.originalXHROpen # <<>>
            THEN [s1 EXCEPT !.lt.xhrOpen = t.originalXHROpen[1]] ELSE s1
      s3 == IF t.originalXHRSend # <<>>
            THEN [s2 EXCEPT !.lt.xhrSend = t.originalXHRSend[1]] ELSE s2
      s4 == IF t.originalFetch # <<>>
            THEN [s3 EXCEPT !.lt.fetch = t.originalFetch[1]] ELSE s3
  IN [s4 EXCEPT !.lt.trackers[n].pendingRequests = {},
                !.lt.trackers[n].pendingResources = {},
                !.lt.trackers[n].activitySources = {}]

\* complete measuring up to the time of completion.
tracker_complete_untilNow(st, n, reason) ==
  LET t == st.lt.trackers[n]
  IN IF t.isComplete THEN st
     ELSE LET s1 == [st EXCEPT !.lt.trackers[n].isComplete = TRUE,
                               !.lt.trackers[n].isTracking = FALSE,
                               !.lt.trackers[n].reason = reason,
                               !.lt.trackers[n].updates = @ + 1]
              loadingTime == st.now - t.baselineTime
          IN updateWebVital(tracker_cleanup(s1, n), "loading_time",
                            loadingTime, t.view).st

\* complete that stops tracking without marking the tracker complete.
tracker_complete_notMarked(st, n, reason) ==
  LET t == st.lt.trackers[n]
  IN IF t.isComplete THEN st
     ELSE LET s1 == [st EXCEPT !.lt.trackers[n].isTracking = FALSE,
                               !.lt.trackers[n].reason = reason,
                               !.lt.trackers[n].updates = @ + 1]
              loadingTime == t.lastActivityTime - t.baselineTime
          IN updateWebVital(tracker_cleanup(s1, n), "loading_time",
                            loadingTime, t.view).st

\* `updates' counts the loading_time updates the tracker has pushed to the
\* view manager.
tracker_complete(st, n, reason) ==
  LET t == st.lt.trackers[n]
  IN IF t.isComplete THEN st
     ELSE LET s1 == [st EXCEPT !.lt.trackers[n].isComplete = TRUE,
                               !.lt.trackers[n].isTracking = FALSE,
                               !.lt.trackers[n].reason = reason,
                               !.lt.trackers[n].updates = @ + 1]
              loadingTime == t.lastActivityTime - t.baselineTime
          IN updateWebVital(tracker_cleanup(s1, n), "loading_time",
                            loadingTime, t.view).st

checkForCompletion(st, n) ==
  LET t == st.lt.trackers[n]
      timeSinceLastActivity == st.now - t.lastActivityTime
      totalTime == st.now - t.baselineTime
      hasPendingActivity == t.pendingRequests # {} \/ t.pendingResources # {}
      quietPeriodMet == timeSinceLastActivity >= quietPeriod /\ ~hasPendingActivity
      maxTimeReached == totalTime >= 20000
  IN IF t.isComplete \/ ~t.isTracking THEN st
     ELSE IF t.viewType = "initial"
     THEN IF quietPeriodMet \/ maxTimeReached
          THEN tracker_complete(st, n, IF maxTimeReached THEN "max_time_reached"
                                       ELSE "activity_quiet")
          ELSE startCompletionCheck(st, n)
     ELSE IF quietPeriodMet THEN tracker_complete(st, n, "activity_quiet")
     ELSE IF maxTimeReached THEN tracker_complete(st, n, "route_change_timeout")
     ELSE startCompletionCheck(st, n)

tracker_start(st, n) ==
  IF st.currentView = 0 THEN st
  ELSE LET currentView_ == CV(st)
           baselineTime ==
             IF currentView_.type = "initial"
             THEN (IF st.perf.navigation # 0 THEN fetchStart ELSE 0)
             ELSE IF currentView_.routeTriggerTime # 0
             THEN currentView_.routeTriggerTime
             ELSE st.now
           timeout == IF currentView_.type = "initial" THEN maxWaitTime ELSE 20000
           s1 == [st EXCEPT !.lt.trackers[n].view = st.currentView,
                            !.lt.trackers[n].viewType = currentView_.type,
                            !.lt.trackers[n].isTracking = TRUE,
                            !.lt.trackers[n].baselineTime = baselineTime,
                            !.lt.trackers[n].lastActivityTime = baselineTime]
           s2 == tracker_setupMutationObserver(
                   setupFetchMonitoring(
                     setupXHRMonitoring(tracker_setupResourceObserver(s1, n), n), n), n)
       IN [startCompletionCheck(s2, n) EXCEPT
             !.lt.trackers[n].timeout = st.now + timeout]

\* The absolute setTimeout callback registered by start.
trackerTimeout(st, n) ==
  IF ~st.lt.trackers[n].isComplete
  THEN tracker_complete(st, n, "timeout")
  ELSE st

\* setupLoadingTime without the clean-up of the tracker it replaces.
setupLoadingTime_keepsPatches(st) ==
  LET n == Len(st.lt.trackers) + 1
  IN tracker_start([st EXCEPT !.lt.trackers = Append(@, NewTracker),
                              !.lt.current = n], n)

setupLoadingTime(st) ==
  LET s1 == IF st.lt.current # 0 THEN tracker_cleanup(st, st.lt.current) ELSE st
      n == Len(s1.lt.trackers) + 1
  IN tracker_start([s1 EXCEPT !.lt.trackers = Append(@, NewTracker),
                              !.lt.current = n], n)

\* --------------------------------------------- ViewScopedResourceCollector
\* A performance entry is [name, startTime]; a collected resource keeps the
\* entry's name and start time and the filter time it was admitted under.
shouldCollectResource(entry) == ~isInExclusionList(entry.name)

isAjaxRequest(entry) == entry.name \in {"/api/data", "/api/optima/collect"}

extractFullResourceData(entry, filterTime, isInitialLoad) ==
  [name |-> entry.name,
   original_start_time |-> entry.startTime,
   start_time |-> IF isInitialLoad THEN entry.startTime
                  ELSE entry.startTime - filterTime,
   filter_time |-> filterTime]

convertToAjaxData(resourceData, entry) ==
  [url |-> entry.name, start_time |-> resourceData.start_time]

calculateRouteChangeFilterTime(view) ==
  IF view.routeTriggerTime # 0 THEN view.routeTriggerTime
  ELSE IF view.interactionBaseline # 0 THEN view.interactionBaseline
  ELSE view.startTime

\* processResourceEntry followed by the caller's addResource (scan path).
processResourceEntry(st, entry) ==
  IF entry.name \in st.rc.processedUrls THEN st
  ELSE IF ~shouldCollectResource(entry) THEN st
  ELSE LET view == CV(st)
           isInitialLoad == view.type = "initial"
           filterTime == IF isInitialLoad THEN 0
                         ELSE calculateRouteChangeFilterTime(view)
           resourceData == extractFullResourceData(entry, filterTime, isInitialLoad)
           s1 == [st EXCEPT !.rc.processedUrls = @ \cup {entry.name}]
       IN addResource(s1, resourceData).st

RECURSIVE scanExisting(_, _, _, _, _)
scanExisting(st, entries, i, filterTime, isInitialLoad) ==
  IF i > Len(entries) THEN st
  ELSE LET entry == entries[i]
           shouldInclude == isInitialLoad \/ entry.startTime >= filterTime
       IN scanExisting(IF shouldInclude THEN processResourceEntry(st, entry) ELSE st,
                       entries, i + 1, filterTime, isInitialLoad)

\* collectExistingResources filtering every view by its start time.
collectExistingResources_filtersInitial(st) ==
  IF st.currentView = 0 THEN st
  ELSE scanExisting(notifyLoadingTimeTrackerAboutExistingResources(st, st.perf.resources),
                    st.perf.resources, 1, CV(st).startTime, FALSE)

collectExistingResources(st) ==
  IF st.currentView = 0 THEN st
  ELSE LET view == CV(st)
           isInitialLoad == view.type = "initial"
           filterTime == IF isInitialLoad THEN 0
                         ELSE calculateRouteChangeFilterTime(view)
       IN scanExisting(
            notifyLoadingTimeTrackerAboutExistingResources(st, st.perf.resources),
            st.perf.resources, 1, filterTime, isInitialLoad)

observerFilterTime(view) ==
  IF view.type = "initial" THEN 0
  ELSE IF view.interactionBaseline # 0 THEN view.interactionBaseline
  ELSE IF view.routeTriggerTime # 0 THEN view.routeTriggerTime
  ELSE view.startTime

\* observeEntry without the processed-URL check.
observeEntry_noDedup(st, entry, filterTime) ==
  LET isInitialLoad == CV(st).type = "initial"
  IN IF ~isInitialLoad /\ entry.startTime < filterTime THEN st
     ELSE IF ~shouldCollectResource(entry) THEN st
     ELSE LET resourceData == extractFullResourceData(entry, filterTime, isInitialLoad)
              s1 == addResource(st, resourceData).st
              s2 == IF isAjaxRequest(entry)
                    THEN addAjaxRequest(s1, convertToAjaxData(resourceData, entry)).st
                    ELSE s1
          IN [s2 EXCEPT !.rc.processedUrls = @ \cup {entry.name}]

observeEntry(st, entry, filterTime) ==
  LET isInitialLoad == CV(st).type = "initial"
  IN IF entry.name \in st.rc.processedUrls THEN st
     ELSE IF ~isInitialLoad /\ entry.startTime < filterTime THEN st
     ELSE IF ~shouldCollectResource(entry) THEN st
     ELSE LET resourceData == extractFullResourceData(entry, filterTime, isInitialLoad)
              s1 == addResource(st, resourceData).st
              s2 == IF isAjaxRequest(entry)
                    THEN addAjaxRequest(s1, convertToAjaxData(resourceData, entry)).st
                    ELSE s1
          IN [s2 EXCEPT !.rc.processedUrls = @ \cup {entry.name}]

RECURSIVE observeEntries(_, _, _, _)
observeEntries(st, entries, i, filterTime) ==
  IF i > Len(entries) THEN st
  ELSE observeEntries(observeEntry(st, entries[i], filterTime), entries, i + 1, filterTime)

processResourceEntries(st, entries) ==
  IF ~hasActiveView(st) THEN st
  ELSE observeEntries(st, entries, 1, observerFilterTime(CV(st)))

\* The collector's resource PerformanceObserver callback.
resourceObserverCallback(st, entries) ==
  processResourceEntries(notifyLoadingTimeTracker(st, entries), entries)

setupResourceObserver(st) ==
  [st EXCEPT !.rc.isObserving = TRUE, !.rc.queue = <<>>]

resource_clearObservers(st) ==
  IF st.rc.isObserving
  THEN [st EXCEPT !.rc.isObserving = FALSE, !.rc.queue = <<>>]
  ELSE st

resource_startCollecting(st) ==
  IF st.currentView = 0 THEN st
  ELSE collectExistingResources(
         setupResourceObserver([st EXCEPT !.rc.processedUrls = {}]))

resource_reset(st) ==
  [resource_clearObservers(st) EXCEPT !.rc.processedUrls = {}]

\* ------------------------------------------------------ ViewScopedWebVitals
\* wv.observers   metrics whose PerformanceObserver is connected
\* wv.closures    per view, the variables captured by that view's callbacks
\* wv.timers      fallback setTimeout callbacks not yet run
\* wv.inpListeners views whose click/keydown/pointerdown listeners are on
\*                the document
\* wv.raf         requestAnimationFrame callbacks not yet run
NewClosure == [lastLCPValue |-> 0, fidRecorded |-> FALSE, fcpRecorded |-> FALSE,
               clsValue |-> 0, maxINP |-> 0]

vitals_clearObservers(st) == [st EXCEPT !.wv.observers = {}]

setupLCP(st) ==
  IF CV(st).type # "initial" THEN st
  ELSE [st EXCEPT !.wv.observers = @ \cup {"LCP"},
                  !.wv.timers = @ \cup {[metric |-> "LCP", owner |-> st.currentView,
                                         due |-> st.now + lcpFallbackDelay]}]

setupFID(st) ==
  IF CV(st).type # "initial" THEN st
  ELSE [st EXCEPT !.wv.observers = @ \cup {"FID"},
                  !.wv.timers = @ \cup {[metric |-> "FID", owner |-> st.currentView,
                                         due |-> st.now + fidFallbackDelay]}]

setupFCP(st) ==
  IF CV(st).type # "initial" THEN st
  ELSE [st EXCEPT !.wv.observers = @ \cup {"FCP"},
                  !.wv.timers = @ \cup {[metric |-> "FCP", owner |-> st.currentView,
                                         due |-> st.now + fcpFallbackDelay]}]

setupTTFB(st) ==
  IF CV(st).type # "initial" THEN st
  ELSE IF st.perf.navigation = 0 THEN st
  ELSE updateWebVital(st, "TTFB", st.perf.navigation, st.currentView).st

setupCLS(st) == [st EXCEPT !.wv.observers = @ \cup {"CLS"}]

setupINP(st) ==
  [st EXCEPT !.wv.inpListeners = @ \cup {st.currentView},
             !.wv.observers = @ \cup {"INP"}]

setupAllMetrics(st) ==
  setupLoadingTime(setupINP(setupCLS(setupTTFB(setupFCP(setupFID(setupLCP(st)))))))

setupRouteChangeMetrics(st) == setupLoadingTime(setupINP(setupCLS(st)))

vitals_startCollecting(st, viewType) ==
  IF st.currentView = 0 THEN st
  ELSE LET s1 == [vitals_clearObservers(st) EXCEPT
                    !.wv.closures = Append(@, NewClosure),
                    !.wv.owner = st.currentView,
                    !.wv.buffered = (viewType = "initial")]
       IN IF viewType = "initial" THEN setupAllMetrics(s1)
          ELSE setupRouteChangeMetrics(s1)

vitals_stopCollecting(st) ==
  LET s1 == vitals_clearObservers(st)
  IN IF s1.lt.current # 0
     THEN [tracker_cleanup(s1, s1.lt.current) EXCEPT !.lt.current = 0]
     ELSE s1

vitals_reset(st) == vitals_stopCollecting(st)

\* Observer callbacks.  `o' is the view whose set-up created the observer.
lcpObserverCallback(st, o, entryStart) ==
  IF ~hasActiveView(st) THEN st
  ELSE IF st.views[o].type # "initial" /\ entryStart < st.views[o].startTime THEN st
  ELSE IF entryStart > st.wv.closures[o].lastLCPValue
  THEN LET value == IF st.views[o].type = "initial" THEN entryStart
                    ELSE entryStart - st.views[o].startTime
       IN updateWebVital([st EXCEPT !.wv.closures[o].lastLCPValue = entryStart],
                         "LCP", value, o).st
  ELSE st

lcpFallbackTimer(st, o, entries) ==
  IF st.wv.closures[o].lastLCPValue = 0 /\ entries # 0
  THEN updateWebVital(st, "LCP", entries, o).st
  ELSE st

fidObserverCallback(st, o, entry) ==
  IF ~hasActiveView(st) THEN st
  ELSE IF st.wv.closures[o].fidRecorded THEN st
  ELSE [updateWebVital(st, "FID", entry.delay, o).st
          EXCEPT !.wv.closures[o].fidRecorded = TRUE]

fidFallbackTimer(st, o, entries) ==
  IF ~st.wv.closures[o].fidRecorded /\ entries # <<>>
  THEN [updateWebVital(st, "FID", entries[1].delay, o).st
          EXCEPT !.wv.closures[o].fidRecorded = TRUE]
  ELSE st

fcpObserverCallback(st, o, entryStart) ==
  IF ~hasActiveView(st) THEN st
  ELSE IF st.wv.closures[o].fcpRecorded THEN st
  ELSE [updateWebVital(st, "FCP", entryStart, o).st
          EXCEPT !.wv.closures[o].fcpRecorded = TRUE]

fcpFallbackTimer(st, o, paint) ==
  IF ~st.wv.closures[o].fcpRecorded /\ paint # 0
  THEN [updateWebVital(st, "FCP", paint, o).st
          EXCEPT !.wv.closures[o].fcpRecorded = TRUE]
  ELSE st

\* clsObserverCallback counting shifts that follow recent input.
clsObserverCallback_countsInput(st, o, entry) ==
  IF ~hasActiveView(st) THEN st
  ELSE IF entry.startTime >= st.views[o].startTime
  THEN LET clsValue == st.wv.closures[o].clsValue + entry.value
       IN updateWebVital([st EXCEPT !.wv.closures[o].clsValue = clsValue],
                         "CLS", clsValue, o).st
  ELSE st

\* A layout-shift entry is [startTime, value, hadRecentInput].
clsObserverCallback(st, o, entry) ==
  IF ~hasActiveView(st) THEN st
  ELSE IF entry.startTime >= st.views[o].startTime /\ ~entry.hadRecentInput
  THEN LET clsValue == st.wv.closures[o].clsValue + entry.value
       IN updateWebVital([st EXCEPT !.wv.closures[o].clsValue = clsValue],
                         "CLS", clsValue, o).st
  ELSE st

\* An event-timing entry is [startTime, duration].
inpObserverCallback(st, o, entry) ==
  IF ~hasActiveView(st) THEN st
  ELSE IF entry.startTime >= st.views[o].startTime
          /\ entry.duration > st.wv.closures[o].maxINP
  THEN updateWebVital([st EXCEPT !.wv.closures[o].maxINP = entry.duration],
                      "INP", entry.duration, o).st
  ELSE st

measureInteraction(st, o, viewRelativeTime) ==
  [st EXCEPT !.wv.raf = Append(@, [owner |-> o, startTime |-> st.now,
                                   viewRelativeTime |-> viewRelativeTime])]

inpListener(st, o) ==
  IF ~hasActiveView(st) THEN st
  ELSE IF st.now < st.views[o].startTime THEN st
  ELSE measureInteraction(st, o, st.now - st.views[o].startTime)

measureInteractionFrame(st, r) ==
  LET duration == st.now - r.startTime
      currentINP == IF st.currentView = 0 THEN 0 ELSE CV(st).webVitals["INP"].value
  IN IF duration > currentINP
     THEN updateWebVital(st, "INP", duration, r.owner).st
     ELSE st

\* ------------------------------------------------ ContinuousMetricsManager
\* cm.exists          sdk.continuousMetrics is set (enableContinuousMetrics
\*                    is on by default)
\* cm.detecting       the manager's layout-shift observer and document
\*                    listeners are registered (they are never removed)
\* cm.lastSentMetrics <<>> for {} and <<m>> for the metrics m last sent
\* cm.interval        due time of the next setInterval callback, 0 for none
\* cm.checks          due times of the pending checkAndSendUpdates timeouts
\* cm.inpChecks       due times of the pending checkForINPUpdate timeouts
\* A web-vital value of 0 stands for null (the source reads value || null).
startContinuousTracking(st) ==
  IF ~st.cm.exists \/ st.cm.isTracking THEN st
  ELSE [st EXCEPT !.cm.isTracking = TRUE,
                  !.cm.lastSentMetrics = <<>>,
                  !.cm.interval = st.now + updateIntervalMs,
                  !.cm.detecting = TRUE]

stopContinuousTracking(st) ==
  IF ~st.cm.exists \/ ~st.cm.isTracking THEN st
  ELSE [st EXCEPT !.cm.isTracking = FALSE,
                  !.cm.interval = 0,
                  !.cm.lastSentMetrics = <<>>]

\* reset that also stops the tracking.
continuous_reset_stops(st) ==
  IF st.cm.exists
  THEN [stopContinuousTracking(st) EXCEPT !.cm.lastSentMetrics = <<>>]
  ELSE st

continuous_reset(st) ==
  IF st.cm.exists THEN [st EXCEPT !.cm.lastSentMetrics = <<>>] ELSE st

\* The manager's layout-shift observer callback for one entry.
clsChangeDetection(st, entry) ==
  IF ~st.cm.isTracking \/ ~hasActiveView(st) THEN st
  ELSE IF ~entry.hadRecentInput
  THEN [st EXCEPT !.cm.checks = @ \cup {st.now + clsCheckDelay}]
  ELSE st

\* The manager's click / keydown / pointerdown listener.
inpChangeDetection(st) ==
  IF ~st.cm.isTracking \/ ~hasActiveView(st) THEN st
  ELSE [st EXCEPT !.cm.inpChecks = @ \cup {st.now + inpCheckDelay}]

getCurrentContinuousMetrics(st) ==
  LET currentView_ == CV(st)
      isInitialLoad == currentView_.type = "initial"
  IN [webVitals |-> [m \in Metrics |->
                       IF m \in {"LCP", "FCP", "FID", "TTFB"} /\ ~isInitialLoad THEN 0
                       ELSE currentView_.webVitals[m].value],
      resourceCount |-> Len(currentView_.resources),
      ajaxCount |-> Len(currentView_.ajaxRequests),
      errorCount |-> Len(currentView_.errors)]

hasSignificantCLSChange(current, last) ==
  IF current = 0 THEN FALSE
  ELSE IF last = 0 THEN current > 0
  ELSE (IF current >= last THEN current - last ELSE last - current)
         >= clsChangeThreshold

hasSignificantINPChange(current, last) ==
  IF current = 0 THEN FALSE
  ELSE IF last = 0 THEN current > 0
  ELSE (IF current >= last THEN current - last ELSE last - current)
         >= inpChangeThreshold

\* last is the webVitals of the last sent metrics, <<>> when there is none.
hasSignificantWebVitalsChange(current, last) ==
  LET lastOf(m) == IF last = <<>> THEN 0 ELSE last[1][m]
  IN \/ hasSignificantCLSChange(current["CLS"], lastOf("CLS"))
     \/ hasSignificantINPChange(current["INP"], lastOf("INP"))
     \/ \E vital \in {"LCP", "FCP", "FID", "TTFB", "loading_time"} :
          current[vital] # 0 /\ lastOf(vital) = 0

\* hasSignificantDataChange that asks for more than five new resources.
hasSignificantDataChange_above(current, last) ==
  LET lastResourceCount == IF last = <<>> THEN 0 ELSE last[1].resourceCount
      lastAjaxCount == IF last = <<>> THEN 0 ELSE last[1].ajaxCount
      lastErrorCount == IF last = <<>> THEN 0 ELSE last[1].errorCount
  IN \/ current.resourceCount - lastResourceCount > 5
     \/ current.ajaxCount - lastAjaxCount >= 3
     \/ current.errorCount > lastErrorCount

hasSignificantDataChange(current, last) ==
  LET lastResourceCount == IF last = <<>> THEN 0 ELSE last[1].resourceCount
      lastAjaxCount == IF last = <<>> THEN 0 ELSE last[1].ajaxCount
      lastErrorCount == IF last = <<>> THEN 0 ELSE last[1].errorCount
  IN \/ current.resourceCount - lastResourceCount >= 5
     \/ current.ajaxCount - lastAjaxCount >= 3
     \/ current.errorCount > lastErrorCount

hasAnyData(metrics) ==
  \/ \E m \in Metrics : metrics.webVitals[m] # 0
  \/ metrics.resourceCount > 0 \/ metrics.ajaxCount > 0 \/ metrics.errorCount > 0

hasSignificantChanges(currentMetrics, lastMetrics) ==
  \/ hasSignificantWebVitalsChange(
       currentMetrics.webVitals,
       IF lastMetrics = <<>> THEN <<>> ELSE <<lastMetrics[1].webVitals>>)
  \/ hasSignificantDataChange(currentMetrics, lastMetrics)
  \/ lastMetrics = <<>> /\ hasAnyData(currentMetrics)

continuous_sendContinuousUpdate(st) ==
  IF ~hasActiveView(st) THEN st
  ELSE LET currentMetrics == getCurrentContinuousMetrics(st)
           update == [view_id |-> st.currentView, timestamp |-> st.now]
       IN [sender_sendContinuousUpdate(st, update) EXCEPT
             !.cm.lastSentMetrics = <<currentMetrics>>]

checkAndSendUpdates(st) ==
  IF ~st.cm.isTracking \/ ~hasActiveView(st) THEN st
  ELSE IF hasSignificantChanges(getCurrentContinuousMetrics(st),
                                st.cm.lastSentMetrics)
  THEN continuous_sendContinuousUpdate(st)
  ELSE st

\* lastSentMetrics.INP is read where the value is lastSentMetrics.webVitals.INP,
\* so the last sent INP is always undefined.
checkForINPUpdate(st) ==
  IF ~hasActiveView(st) THEN st
  ELSE LET currentINP == CV(st).webVitals["INP"].value
           lastSentINP == 0
       IN IF currentINP # 0 /\ hasSignificantINPChange(currentINP, lastSentINP)
          THEN continuous_sendContinuousUpdate(st)
          ELSE st

\* ------------------------------------------- view transition (ViewManager)
resetPerformanceObservers(st) ==
  resource_clearObservers(vitals_clearObservers(Did(st, "_resetPerformanceObservers")))

\* What is attached to the page: the connected web-vitals observers, the
\* resource observer, the views whose interaction listeners are on the
\* document, the trackers whose observers are connected and the trackers
\* whose wrappers are installed on XHR open/send or fetch.
Attached(st) ==
  [observers |-> st.wv.observers,
   resourceObserver |-> st.rc.isObserving,
   listeners |-> st.wv.inpListeners,
   trackers |-> {n \in DOMAIN st.lt.trackers : st.lt.trackers[n].observing},
   patches |-> {st.lt.xhrOpen, st.lt.xhrSend, st.lt.fetch} \ {0}]

\* ViewManager.resetCollectors: it assigns the view's collectorState and the
\* SDK's sentResourceURLs, which nothing reads.
resetCollectors(st) ==
  IF st.currentView = 0 THEN st ELSE Did(st, "resetCollectors")

startCollectorsForView(st, viewType) ==
  vitals_startCollecting(
    resource_startCollecting(Did(st, "startCollectorsForView")), viewType)

\* startNewView without the completion of the view it replaces.
startNewView_keepsPrevious(st, type, url, interactionBaseline, routeTriggerTime) ==
  LET s1 == resetPerformanceObservers([st EXCEPT !.sdk.viewStart = <<>>])
      view == createView(s1, type, url, interactionBaseline, routeTriggerTime)
      s3 == [Did(s1, "createView") EXCEPT !.views = Append(@, view),
                                          !.currentView = view.id,
                                          !.sdk.attachedAtInstall = Attached(s1)]
  IN continuous_reset(
       startCollectorsForView(updateActivity(resetCollectors(s3)), type))

\* startNewView that completes the previous view before it asks for the
\* observers to be cleared.
startNewView_completesFirst(st, type, url, interactionBaseline, routeTriggerTime) ==
  LET s0 == [st EXCEPT !.sdk.viewStart = <<>>]
      s1 == IF s0.currentView # 0 /\ ~CV(s0).isCompleted
            THEN completeView(s0, "new_view_started")
            ELSE s0
      s2 == resetPerformanceObservers(s1)
      view == createView(s2, type, url, interactionBaseline, routeTriggerTime)
      s3 == [Did(s2, "createView") EXCEPT !.views = Append(@, view),
                                          !.currentView = view.id,
                                          !.sdk.attachedAtInstall = Attached(s2)]
  IN continuous_reset(
       startCollectorsForView(updateActivity(resetCollectors(s3)), type))

startNewView(st, type, url, interactionBaseline, routeTriggerTime) ==
  LET s1 == resetPerformanceObservers([st EXCEPT !.sdk.viewStart = <<>>])
      s2 == IF s1.currentView # 0 /\ ~CV(s1).isCompleted
            THEN completeView(s1, "new_view_started")
            ELSE s1
      view == createView(s2, type, url, interactionBaseline, routeTriggerTime)
      s3 == [Did(s2, "createView") EXCEPT !.views = Append(@, view),
                                          !.currentView = view.id,
                                          !.sdk.attachedAtInstall = Attached(s2)]
  IN continuous_reset(
       startCollectorsForView(updateActivity(resetCollectors(s3)), type))

\* ---------------------------------------------------- RouteChangeDetector
Elements == {"a", "div"}

isNavigationElement(target) == target = "a"

recordUserInteraction(st, target) ==
  IF isNavigationElement(target)
  THEN [st EXCEPT !.rd.lastUserInteractionTime = st.now]
  ELSE st

canUseInteractionTimeAsBaseline(st) ==
  IF st.rd.lastUserInteractionTime = 0 THEN FALSE
  ELSE st.now - st.rd.lastUserInteractionTime <= userInteractionTimeout

\* isMeaningfulRouteChange that also takes a query-string change.
isMeaningfulRouteChange_query(oldUrl, newUrl) ==
  \/ oldUrl.origin # newUrl.origin
  \/ oldUrl.pathname # newUrl.pathname
  \/ oldUrl.search # newUrl.search
  \/ /\ oldUrl.hash # newUrl.hash
     /\ (Len(oldUrl.hash) > 1 \/ Len(newUrl.hash) > 1)

isMeaningfulRouteChange(oldUrl, newUrl) ==
  \/ oldUrl.origin # newUrl.origin
  \/ oldUrl.pathname # newUrl.pathname
  \/ /\ oldUrl.hash # newUrl.hash
     /\ (Len(oldUrl.hash) > 1 \/ Len(newUrl.hash) > 1)

handleRouteChange(st, method, newUrl, routeTriggerTime) ==
  LET triggerTime == IF routeTriggerTime # 0 THEN routeTriggerTime ELSE st.now
  IN IF newUrl = st.rd.currentUrl THEN st
     ELSE IF ~isMeaningfulRouteChange(st.rd.currentUrl, newUrl)
     THEN [st EXCEPT !.rd.currentUrl = newUrl]
     ELSE LET interactionBaseline ==
                IF canUseInteractionTimeAsBaseline(st)
                THEN st.rd.lastUserInteractionTime ELSE 0
          IN startNewView([st EXCEPT !.rd.currentUrl = newUrl],
                          "route_change", newUrl, interactionBaseline, triggerTime)

triggerRouteChange(st, url) == handleRouteChange(st, "manual", url, st.now)

\* ----------------------------------------------------------- ViewBasedOptima
sendEvent(st, eventName, immediate) ==
  IF st.sdk.disabled \/ ~st.sdk.sessionId THEN st
  ELSE IF st.currentView # 0 THEN addEvent(st, eventName).st ELSE st

startInitialView(st) ==
  [startContinuousTracking(startNewView(st, "initial", st.href, 0, 0))
     EXCEPT !.sdk.onViewCompleted = TRUE]

completeInit(st) ==
  LET s1 == [st EXCEPT !.sdk.sessionId = TRUE,
                       !.sdk.architecture = TRUE,
                       !.cm.exists = TRUE,
                       !.sdk.pendingInit = FALSE,
                       !.rd.currentUrl = st.href]
      s2 == [startInitialView(s1) EXCEPT !.sdk.isInitialized = TRUE]
  IN sendEvent(s2, "sdk_initialized", FALSE)

\* init going on after it has disabled the SDK.
init_continues(st, apiKey, sampled) ==
  IF st.sdk.isInitialized THEN st
  ELSE LET s1 == IF ~apiKey \/ ~sampled THEN [st EXCEPT !.sdk.disabled = TRUE] ELSE st
       IN IF s1.perf.readyState = "loading" THEN [s1 EXCEPT !.sdk.pendingInit = TRUE]
          ELSE completeInit(s1)

init(st, apiKey, sampled) ==
  IF st.sdk.isInitialized THEN st
  ELSE IF ~apiKey \/ ~sampled THEN [st EXCEPT !.sdk.disabled = TRUE]
  ELSE IF st.perf.readyState = "loading" THEN [st EXCEPT !.sdk.pendingInit = TRUE]
  ELSE completeInit(st)

handlePageHidden(st) ==
  LET s1 == sendEvent(st, "page_hidden", TRUE)
      s2 == IF s1.currentView # 0 /\ ~CV(s1).isCompleted
            THEN completeView(s1, "page_hidden") ELSE s1
  IN forceFlush(s2)

\* handlePageVisible resuming the completed view.
handlePageVisible_resumes(st) ==
  IF st.currentView = 0 THEN st
  ELSE sendEvent([st EXCEPT !.views[st.currentView].isActive = TRUE,
                            !.views[st.currentView].isCompleted = FALSE],
                 "page_visible", FALSE)

handlePageVisible(st) == sendEvent(st, "page_visible", FALSE)

handlePageUnload(st) ==
  LET s1 == IF st.currentView # 0 /\ ~CV(st).isCompleted
            THEN completeView(st, "page_unload") ELSE st
  IN stopContinuousTracking(forceFlush(s1))

cleanup(st) ==
  LET s1 == IF st.currentView # 0 /\ ~CV(st).isCompleted
            THEN completeView(st, "sdk_cleanup") ELSE st
      s2 == vitals_reset(resource_reset(stopContinuousTracking(sender_cleanup(s1))))
  IN [s2 EXCEPT !.sdk.isInitialized = FALSE, !.sdk.sessionId = FALSE]

\* -------------------------------------------------------- error monitoring
shouldSampleError(st, errorData) ==
  IF Len(st.sdk.errorBuffer) < 5 THEN TRUE
  ELSE IF \E i \in 1..Len(st.sdk.errorBuffer) :
             st.sdk.errorBuffer[i].error_id = errorData.error_id
  THEN FALSE
  ELSE ~\E i \in 1..Len(st.sdk.errorBuffer) :
           /\ i > Len(st.sdk.errorBuffer) - 5
           /\ st.sdk.errorBuffer[i].message = errorData.message
           /\ st.sdk.errorBuffer[i].source = errorData.source
           /\ errorData.timestamp - st.sdk.errorBuffer[i].timestamp < 100

flushErrors(st) == [st EXCEPT !.sdk.errorBuffer = <<>>]

storeErrorData(st, errorData) ==
  IF shouldSampleError(st, errorData)
  THEN LET s1 == [st EXCEPT !.sdk.errorBuffer = Append(@, errorData)]
           s2 == IF s1.currentView # 0 THEN addError(s1, errorData).st ELSE s1
       IN IF Len(s2.sdk.errorBuffer) >= 5 THEN flushErrors(s2) ELSE s2
  ELSE st

\* The source of a captured error: the script of an error event, 'Promise'
\* for a rejection, 'console.error' for a console call.
ErrorSource(type) ==
  IF type = "error" THEN "/app.js"
  ELSE IF type = "unhandled_rejection" THEN "Promise" ELSE "console.error"

\* The error id is a hash of type, message, source and stack prefix; the
\* stack is taken to be the same for the same error.
ErrorData(st, type, message) ==
  [type |-> type, message |-> message, source |-> ErrorSource(type),
   timestamp |-> st.now,
   error_id |-> <<type, message, ErrorSource(type)>>]

captureErrorEvent(st, type, message) ==
  sendEvent(flushErrors(storeErrorData(st, ErrorData(st, type, message))),
            "error", FALSE)

consoleError(st, message) ==
  storeErrorData(st, ErrorData(st, "console_error", message))

\* ================================================================ actions
\* The state after the script is loaded; `budget' is the number of views an
\* exploration follows.
Loaded(budget) ==
  /\ now = 1
  /\ ticks = 0
  /\ viewBudget = budget
  /\ href = HomeUrl
  /\ sdk = [initCalled |-> FALSE, isInitialized |-> FALSE, sessionId |-> FALSE,
            disabled |-> FALSE, architecture |-> FALSE, pendingInit |-> FALSE,
            onViewCompleted |-> FALSE, handlerLog |-> <<>>, errorBuffer |-> <<>>,
            viewStart |-> <<>>,
            attachedAtInstall |-> [observers |-> {}, resourceObserver |-> FALSE,
                                   listeners |-> {}, trackers |-> {},
                                   patches |-> {}]]
  /\ views = <<>>
  /\ currentView = 0
  /\ viewHistory = <<>>
  /\ rd = [currentUrl |-> HomeUrl, lastUserInteractionTime |-> 0, timers |-> {}]
  /\ rc = [processedUrls |-> {}, isObserving |-> FALSE, queue |-> <<>>]
  /\ wv = [observers |-> {}, owner |-> 0, buffered |-> FALSE, closures |-> <<>>,
           timers |-> {}, inpListeners |-> {}, raf |-> <<>>]
  /\ lt = [trackers |-> <<>>, current |-> 0,
           xhrOpen |-> 0, xhrSend |-> 0, fetch |-> 0, resourceTimers |-> {}]
  /\ cm = [exists |-> FALSE, isTracking |-> FALSE, detecting |-> FALSE,
           lastSentMetrics |-> <<>>, interval |-> 0, checks |-> {}, inpChecks |-> {}]
  /\ ds = [received |-> <<>>, createdViewSessions |-> {}, sendQueue |-> <<>>,
           batchTimer |-> 0, isProcessing |-> FALSE, staggered |-> {},
           processingReset |-> 0, transmitted |-> <<>>, sessionTimers |-> {},
           produced |-> 0, delayed |-> {}]
  /\ perf \in {[readyState |-> r, visibilityState |-> "visible", online |-> TRUE, resources |-> <<>>, inflight |-> {}, events |-> 0,
                paint |-> 0, lcp |-> 0, firstInput |-> <<>>, navigation |-> 1,
                layoutShifts |-> <<>>] : r \in {"loading", "complete"}}

NoEvaluation == [pending |-> FALSE, current |-> <<>>, last |-> <<>>, result |-> <<>>]

Init == Loaded(MaxViews) /\ sig = NoEvaluation

InitHistory == Loaded(MaxHistoryViews) /\ sig = NoEvaluation

InitTransitions == Loaded(MaxTransitionViews) /\ sig = NoEvaluation

\* Metrics as getCurrentContinuousMetrics returns them.  CLS is in
\* hundredths, so the values step by the CLS threshold; the INP values and
\* the counts lie on both sides of their thresholds.
MetricsValues ==
  {[webVitals |-> [m \in Metrics |->
                     CASE m = "CLS" -> cls [] m = "INP" -> inp [] m = "LCP" -> lcp
                       [] m = "loading_time" -> loading [] OTHER -> 0],
    resourceCount |-> r, ajaxCount |-> a, errorCount |-> e] :
     cls \in {0, 1, 2}, inp \in {0, 40, 90}, lcp \in {0, 5}, loading \in {0, 7},
     r \in {0, 4, 5}, a \in {0, 2, 3}, e \in {0, 1}}

\* The last sent metrics are {} or an earlier reading of the same view:
\* the counts and CLS of a view do not decrease and a vital that has a
\* value keeps one.
EarlierReading(last, current) ==
  /\ last.resourceCount <= current.resourceCount
  /\ last.ajaxCount <= current.ajaxCount
  /\ last.errorCount <= current.errorCount
  /\ last.webVitals["CLS"] <= current.webVitals["CLS"]
  /\ \A m \in Metrics : last.webVitals[m] # 0 => current.webVitals[m] # 0

InitSignificance ==
  /\ Loaded(MaxViews)
  /\ \E current \in MetricsValues :
       \E last \in {<<>>} \cup {<<l>> : l \in {x \in MetricsValues :
                                               EarlierReading(x, current)}} :
         sig = [pending |-> TRUE, current |-> <<current>>, last |-> last,
                result |-> <<>>]

\* The clock advances.
Tick(d) ==
  /\ ticks < MaxTicks
  /\ now' = now + d
  /\ ticks' = ticks + 1
  /\ UNCHANGED <<viewBudget, sig, href, sdk, views, currentView, viewHistory, rd, rc,
                 wv, lt, cm, ds, perf>>

\* Host page: optima('init', config).
InitSDK(apiKey, sampled) ==
  /\ ~sdk.initCalled
  /\ Set(init([Cur EXCEPT !.sdk.initCalled = TRUE], apiKey, sampled))
  /\ UNCHANGED ticks

DOMContentLoaded ==
  /\ perf.readyState = "loading"
  /\ LET s1 == [Cur EXCEPT !.perf.readyState = "complete"]
     IN Set(IF sdk.pendingInit THEN completeInit(s1) ELSE s1)
  /\ UNCHANGED ticks

\* The URL changes along a path the detector has not hooked at that instant
\* (before the history API is patched, or a traversal / fragment navigation
\* whose popstate or hashchange event is still queued).
LocationChange(u) ==
  /\ u # href
  /\ Set([Cur EXCEPT !.href = u])
  /\ UNCHANGED ticks

PushState(u) ==
  /\ sdk.architecture
  /\ Len(views) < viewBudget
  /\ Set(handleRouteChange([Cur EXCEPT !.href = u], "pushstate", u, now))
  /\ UNCHANGED ticks

ReplaceState(u) ==
  /\ sdk.architecture
  /\ Len(views) < viewBudget
  /\ Set(handleRouteChange([Cur EXCEPT !.href = u], "replacestate", u, now))
  /\ UNCHANGED ticks

PopState ==
  /\ sdk.architecture
  /\ Len(views) < viewBudget
  /\ href # rd.currentUrl
  /\ Set(handleRouteChange(Cur, "popstate", href, now))
  /\ UNCHANGED ticks

HashChange ==
  /\ sdk.architecture
  /\ Len(views) < viewBudget
  /\ href # rd.currentUrl
  /\ Set(handleRouteChange(Cur, "hashchange", href, now))
  /\ UNCHANGED ticks

\* MutationObserver callback for a significant childList mutation.
DomMutation ==
  /\ sdk.architecture
  /\ Cardinality(rd.timers) < MaxPending
  /\ href # rd.currentUrl
  /\ Set([Cur EXCEPT !.rd.timers = @ \cup {[triggerTime |-> now,
                                            due |-> now + mutationDebounce]}])
  /\ UNCHANGED ticks

MutationTimer(t) ==
  /\ t \in rd.timers
  /\ t.due <= now
  /\ Len(views) < viewBudget
  /\ Set(handleRouteChange([Cur EXCEPT !.rd.timers = @ \ {t}],
                           "mutation_observer", href, t.triggerTime))
  /\ UNCHANGED ticks

ManualTrigger(u) ==
  /\ sdk.architecture
  /\ Len(views) < viewBudget
  /\ Set(triggerRouteChange(Cur, u))
  /\ UNCHANGED ticks

PageHidden ==
  /\ sdk.architecture
  /\ perf.visibilityState = "visible"
  /\ Set(handlePageHidden([Cur EXCEPT !.perf.visibilityState = "hidden"]))
  /\ UNCHANGED ticks

PageVisible ==
  /\ sdk.architecture
  /\ perf.visibilityState = "hidden"
  /\ Set(handlePageVisible([Cur EXCEPT !.perf.visibilityState = "visible"]))
  /\ UNCHANGED ticks

PageUnload ==
  /\ sdk.architecture
  /\ Set(handlePageUnload(Cur))
  /\ UNCHANGED ticks

Cleanup ==
  /\ sdk.architecture
  /\ Set(cleanup(Cur))
  /\ UNCHANGED ticks

\* Host page: optima('track', name).
Track(name) ==
  /\ perf.events < MaxEvents
  /\ Set(sendEvent([Cur EXCEPT !.perf.events = @ + 1], name, FALSE))
  /\ UNCHANGED ticks

ErrorEvent(type, message) ==
  /\ sdk.architecture
  /\ perf.events < MaxEvents
  /\ Set(captureErrorEvent([Cur EXCEPT !.perf.events = @ + 1], type, message))
  /\ UNCHANGED ticks

ConsoleError(message) ==
  /\ sdk.architecture
  /\ perf.events < MaxEvents
  /\ Set(consoleError([Cur EXCEPT !.perf.events = @ + 1], message))
  /\ UNCHANGED ticks

BatchTimer ==
  /\ ds.batchTimer # 0
  /\ ds.batchTimer <= now
  /\ Set(processBatchQueue([Cur EXCEPT !.ds.batchTimer = 0]))
  /\ UNCHANGED ticks

\* Timer callbacks of a batch run in the order of their delays.
StaggeredSend(p) ==
  /\ p \in ds.staggered
  /\ p.due <= now
  /\ \A q \in ds.staggered : p.due <= q.due
  /\ Set(performSend([Cur EXCEPT !.ds.staggered = @ \ {p}], p.item,
                     SendOptions(FALSE, FALSE, TRUE)))
  /\ UNCHANGED ticks

ProcessingReset ==
  /\ ds.processingReset # 0
  /\ ds.processingReset <= now
  /\ Set([Cur EXCEPT !.ds.processingReset = 0, !.ds.isProcessing = FALSE])
  /\ UNCHANGED ticks

\* A client of the data sender (window.ViewBasedOptima.dataSender) hands it
\* the current view with a trigger of its own.
SendViewData(trigger) ==
  /\ sdk.architecture
  /\ currentView # 0
  /\ Len(ds.received) < MaxSends
  /\ Set(sendViewData(Cur, currentView, trigger))
  /\ UNCHANGED ticks

\* The network goes away: requests no longer reach the server.
Offline ==
  /\ perf.online
  /\ Set([Cur EXCEPT !.perf.online = FALSE])
  /\ UNCHANGED ticks

\* -------------------------------------------------- resources (environment)
\* A resource load begins.  The /api/ URLs are requested with window.fetch,
\* the others by an element of the page.
FetchStart(url) ==
  /\ perf.events < MaxEvents
  /\ LET request == [name |-> url, startTime |-> now]
         s1 == [Cur EXCEPT !.perf.events = @ + 1,
                           !.perf.inflight = @ \cup {request}]
     IN Set(IF isAjaxRequest(request)
            THEN callWrapped(s1, lt.fetch, "fetch", request)
            ELSE s1)
  /\ UNCHANGED ticks

\* The page opens and sends an XMLHttpRequest.
XhrSend(url) ==
  /\ perf.events < MaxEvents
  /\ LET request == [name |-> url, startTime |-> now]
     IN /\ request \notin perf.inflight
        /\ Set(callWrapped([Cur EXCEPT !.perf.events = @ + 1,
                                        !.perf.inflight = @ \cup {request}],
                            lt.xhrSend, "xhr", request))
  /\ UNCHANGED ticks

\* The response ends: the entry enters the performance timeline and is
\* queued for the connected resource observer.
FetchEnd(e) ==
  /\ e \in perf.inflight
  /\ LET s1 == [Cur EXCEPT
                  !.perf.inflight = @ \ {e},
                  !.perf.resources = Append(@, e),
                  !.rc.queue = IF rc.isObserving THEN Append(@, e) ELSE @,
                  !.lt.trackers = [n \in DOMAIN @ |->
                     IF @[n].observing
                     THEN [@[n] EXCEPT !.queue = Append(@, e)] ELSE @[n]]]
     IN Set(requestSettled(s1, e))
  /\ UNCHANGED ticks

ResourceObserverCallback ==
  /\ rc.isObserving
  /\ rc.queue # <<>>
  /\ Set(resourceObserverCallback([Cur EXCEPT !.rc.queue = <<>>], rc.queue))
  /\ UNCHANGED ticks

\* ------------------------------------------- loading-time tracker callbacks
TrackerResourceObserver(n) ==
  /\ n \in DOMAIN lt.trackers
  /\ lt.trackers[n].observing
  /\ lt.trackers[n].queue # <<>>
  /\ Set(trackerResourceObserver([Cur EXCEPT !.lt.trackers[n].queue = <<>>], n,
                                 lt.trackers[n].queue))
  /\ UNCHANGED ticks

\* The tracker's MutationObserver callback for a significant mutation.
TrackerMutation(n) ==
  /\ n \in DOMAIN lt.trackers
  /\ lt.trackers[n].observing
  /\ perf.events < MaxEvents
  /\ Set(recordActivity([Cur EXCEPT !.perf.events = @ + 1], n, "dom_mutation"))
  /\ UNCHANGED ticks

PendingResourceTimer(t) ==
  /\ t \in lt.resourceTimers
  /\ t.due <= now
  /\ Set([Cur EXCEPT !.lt.resourceTimers = @ \ {t},
                     !.lt.trackers[t.tracker].pendingResources = @ \ {t.name}])
  /\ UNCHANGED ticks

CompletionCheck(n) ==
  /\ n \in DOMAIN lt.trackers
  /\ lt.trackers[n].checkInterval # 0
  /\ lt.trackers[n].checkInterval <= now
  /\ Set(checkForCompletion([Cur EXCEPT !.lt.trackers[n].checkInterval = 0], n))
  /\ UNCHANGED ticks

TrackerTimeout(n) ==
  /\ n \in DOMAIN lt.trackers
  /\ lt.trackers[n].timeout # 0
  /\ lt.trackers[n].timeout <= now
  /\ Set(trackerTimeout([Cur EXCEPT !.lt.trackers[n].timeout = 0], n))
  /\ UNCHANGED ticks

\* ------------------------------------------------- web vitals (environment)
Paint ==
  /\ perf.paint = 0
  /\ Set([Cur EXCEPT !.perf.paint = now])
  /\ UNCHANGED ticks

LcpCandidate ==
  /\ perf.lcp < now
  /\ perf.events < MaxEvents
  /\ Set([Cur EXCEPT !.perf.lcp = now, !.perf.events = @ + 1])
  /\ UNCHANGED ticks

FcpObserverCallback ==
  /\ "FCP" \in wv.observers
  /\ perf.paint # 0
  /\ Set(fcpObserverCallback(Cur, wv.owner, perf.paint))
  /\ UNCHANGED ticks

LcpObserverCallback ==
  /\ "LCP" \in wv.observers
  /\ perf.lcp # 0
  /\ Set(lcpObserverCallback(Cur, wv.owner, perf.lcp))
  /\ UNCHANGED ticks

FidObserverCallback ==
  /\ "FID" \in wv.observers
  /\ perf.firstInput # <<>>
  /\ Set(fidObserverCallback(Cur, wv.owner, perf.firstInput[1]))
  /\ UNCHANGED ticks

\* A fallback setTimeout callback runs.  Whether the timeline lookup of the
\* LCP and first-input entries returns them is the browser's choice.
FallbackTimer(t, exposed) ==
  /\ t \in wv.timers
  /\ t.due <= now
  /\ LET s1 == [Cur EXCEPT !.wv.timers = @ \ {t}]
     IN Set(CASE t.metric = "LCP" ->
                   lcpFallbackTimer(s1, t.owner, IF exposed THEN perf.lcp ELSE 0)
              [] t.metric = "FID" ->
                   fidFallbackTimer(s1, t.owner, IF exposed THEN perf.firstInput ELSE <<>>)
              [] t.metric = "FCP" ->
                   fcpFallbackTimer(s1, t.owner, perf.paint))
  /\ UNCHANGED ticks

ShiftValues == {1, 2}

LayoutShift(value, hadRecentInput, early) ==
  /\ "CLS" \in wv.observers
  /\ perf.events < MaxEvents
  /\ early => wv.buffered
  /\ LET entry == [startTime |-> IF early THEN 0 ELSE now,
                   value |-> value, hadRecentInput |-> hadRecentInput]
         s1 == clsObserverCallback([Cur EXCEPT !.perf.events = @ + 1,
                                               !.perf.layoutShifts = Append(@, entry)],
                                   wv.owner, entry)
     IN Set(IF cm.detecting /\ ~early THEN clsChangeDetection(s1, entry) ELSE s1)
  /\ UNCHANGED ticks

Durations == {8, 40}

EventTiming(duration, early) ==
  /\ "INP" \in wv.observers
  /\ perf.events < MaxEvents
  /\ early => wv.buffered
  /\ Set(inpObserverCallback([Cur EXCEPT !.perf.events = @ + 1], wv.owner,
                             [startTime |-> IF early THEN 0 ELSE now,
                              duration |-> duration]))
  /\ UNCHANGED ticks

RECURSIVE runInpListeners(_, _)
runInpListeners(st, owners) ==
  IF owners = {} THEN st
  ELSE LET o == CHOOSE x \in owners : \A y \in owners : x <= y
       IN runInpListeners(inpListener(st, o), owners \ {o})

\* A click is dispatched on the document: the detector's capture listener
\* runs first, then every INP listener in registration order, and the
\* continuous metrics manager's listener once it is registered.
Click(target) ==
  /\ perf.events < MaxEvents
  /\ LET s0 == [Cur EXCEPT !.perf.events = @ + 1,
                           !.perf.firstInput =
                              IF @ = <<>> THEN <<[startTime |-> now, delay |-> 8]>>
                              ELSE @]
         s1 == IF sdk.architecture THEN recordUserInteraction(s0, target) ELSE s0
         s2 == runInpListeners(s1, wv.inpListeners)
     IN Set(IF cm.detecting THEN inpChangeDetection(s2) ELSE s2)
  /\ UNCHANGED ticks

RECURSIVE runFrame(_, _, _)
runFrame(st, callbacks, i) ==
  IF i > Len(callbacks) THEN st
  ELSE runFrame(measureInteractionFrame(st, callbacks[i]), callbacks, i + 1)

AnimationFrame ==
  /\ wv.raf # <<>>
  /\ Set(runFrame([Cur EXCEPT !.wv.raf = <<>>], wv.raf, 1))
  /\ UNCHANGED ticks

\* checkAndSendUpdates evaluates hasSignificantChanges on the current metrics
\* with lastSentMetrics as the baseline.
EvaluateChanges ==
  /\ sig.pending
  /\ sig' = [sig EXCEPT !.pending = FALSE,
                        !.result = <<hasSignificantChanges(sig.current[1], sig.last)>>]
  /\ UNCHANGED <<now, ticks, viewBudget, href, sdk, views, currentView, viewHistory,
                 rd, rc, wv, lt, cm, ds, perf>>

\* The setInterval callback of startContinuousTracking.
IntervalCheck ==
  /\ cm.interval # 0
  /\ cm.interval <= now
  /\ ds.produced < MaxUpdates
  /\ Set(checkAndSendUpdates([Cur EXCEPT !.cm.interval = @ + updateIntervalMs]))
  /\ UNCHANGED ticks

\* A setTimeout(checkAndSendUpdates) callback.
ContinuousCheck(t) ==
  /\ t \in cm.checks
  /\ t <= now
  /\ ds.produced < MaxUpdates
  /\ Set(checkAndSendUpdates([Cur EXCEPT !.cm.checks = @ \ {t}]))
  /\ UNCHANGED ticks

\* A setTimeout(checkForINPUpdate) callback.
InpCheck(t) ==
  /\ t \in cm.inpChecks
  /\ t <= now
  /\ ds.produced < MaxUpdates
  /\ Set(checkForINPUpdate([Cur EXCEPT !.cm.inpChecks = @ \ {t}]))
  /\ UNCHANGED ticks

\* The setTimeout callback of a delayed continuous update; the callbacks
\* have one delay and run in the order they were set.
DelayedUpdate(p) ==
  /\ p \in ds.delayed
  /\ p.due <= now
  /\ \A q \in ds.delayed :
        p.due < q.due \/ (p.due = q.due /\ p.payload.object >= q.payload.object)
  /\ Set(performSend([Cur EXCEPT !.ds.delayed = @ \ {p}], p.payload,
                     SendOptions(TRUE, FALSE, FALSE)))
  /\ UNCHANGED ticks

\* The setTimeout callback of markViewCompleted.
SessionCleanup(t) ==
  /\ t \in ds.sessionTimers
  /\ t.due <= now
  /\ Set([Cur EXCEPT !.ds.sessionTimers = @ \ {t},
                     !.ds.createdViewSessions = @ \ {t.view}])
  /\ UNCHANGED ticks

\* ============================================================ specifications
Navigation ==
  \/ \E u \in Hrefs : LocationChange(u)
  \/ \E u \in Hrefs : PushState(u)
  \/ \E u \in Hrefs : ReplaceState(u)
  \/ PopState
  \/ HashChange
  \/ DomMutation
  \/ \E t \in rd.timers : MutationTimer(t)
  \/ \E u \in Hrefs : ManualTrigger(u)

Lifecycle ==
  \/ \E apiKey, sampled \in BOOLEAN : InitSDK(apiKey, sampled)
  \/ DOMContentLoaded
  \/ \E d \in Steps : Tick(d)
  \/ PageHidden
  \/ PageVisible
  \/ PageUnload
  \/ Cleanup

Host ==
  \/ \E name \in {"purchase"} : Track(name)
  \/ \E type \in {"error", "unhandled_rejection"} : ErrorEvent(type, "boom")
  \/ ConsoleError("boom")

SendTriggers == {"completed", "manual", "stale_timeout", "new_view_started",
                 "route_change_trigger", "page_hidden", "page_unload",
                 "error", "critical_error"}

Sender ==
  \/ \E trigger \in SendTriggers : SendViewData(trigger)
  \/ Offline
  \/ BatchTimer
  \/ \E p \in ds.staggered : StaggeredSend(p)
  \/ ProcessingReset

Resources ==
  \/ \E url \in ResourceUrls : FetchStart(url)
  \/ \E e \in perf.inflight : FetchEnd(e)
  \/ ResourceObserverCallback

LoadingTime ==
  \/ \E url \in ResourceUrls : XhrSend(url)
  \/ \E n \in DOMAIN lt.trackers : TrackerResourceObserver(n)
  \/ \E n \in DOMAIN lt.trackers : TrackerMutation(n)
  \/ \E t \in lt.resourceTimers : PendingResourceTimer(t)
  \/ \E n \in DOMAIN lt.trackers : CompletionCheck(n)
  \/ \E n \in DOMAIN lt.trackers : TrackerTimeout(n)

Vitals ==
  \/ Paint
  \/ LcpCandidate
  \/ FcpObserverCallback
  \/ LcpObserverCallback
  \/ FidObserverCallback
  \/ \E t \in wv.timers, exposed \in BOOLEAN : FallbackTimer(t, exposed)
  \/ \E v \in ShiftValues, r, early \in BOOLEAN : LayoutShift(v, r, early)
  \/ \E d \in Durations, early \in BOOLEAN : EventTiming(d, early)
  \/ \E target \in Elements : Click(target)
  \/ AnimationFrame

Continuous ==
  \/ IntervalCheck
  \/ \E t \in cm.checks : ContinuousCheck(t)
  \/ \E t \in cm.inpChecks : InpCheck(t)
  \/ \E p \in ds.delayed : DelayedUpdate(p)
  \/ \E t \in ds.sessionTimers : SessionCleanup(t)

Next ==
  \/ Lifecycle \/ Navigation \/ Host \/ Sender \/ Resources \/ LoadingTime \/ Vitals
  \/ Continuous

Spec == Init /\ [][Next]_vars

\* View lifecycle: initialization, every route-change signal, page
\* visibility, unload and cleanup.
NextLifecycle ==
  \/ \E apiKey, sampled \in BOOLEAN : InitSDK(apiKey, sampled)
  \/ DOMContentLoaded
  \/ Tick(mutationDebounce)
  \/ PageHidden
  \/ PageVisible
  \/ PageUnload
  \/ Cleanup
  \/ Navigation

SpecLifecycle == Init /\ [][NextLifecycle]_vars

\* Every writer of view data, with and without an active view.
NextCollect ==
  \/ InitSDK(TRUE, TRUE)
  \/ Tick(mutationDebounce)
  \/ PushState(AboutUrl)
  \/ PageHidden
  \/ Cleanup
  \/ Track("purchase")
  \/ ErrorEvent("error", "boom")
  \/ FetchStart("/api/data")
  \/ \E e \in perf.inflight : FetchEnd(e)
  \/ ResourceObserverCallback
  \/ Click("div")
  \/ AnimationFrame

SpecCollect == Init /\ [][NextCollect]_vars

\* Resource collection across an initial view and a route change reached
\* through the history API or through the DOM-mutation fallback.
NextResources ==
  \/ InitSDK(TRUE, TRUE)
  \/ Tick(mutationDebounce)
  \/ LocationChange(AboutUrl)
  \/ PushState(AboutUrl)
  \/ DomMutation
  \/ \E t \in rd.timers : MutationTimer(t)
  \/ Click("a")
  \/ PageHidden
  \/ \E url \in {"/app.js", "/api/optima/collect"} : FetchStart(url)
  \/ \E e \in perf.inflight : FetchEnd(e)
  \/ ResourceObserverCallback

SpecResources == Init /\ [][NextResources]_vars

\* A session of many navigations: the view history fills and turns over.
NextHistory ==
  \/ InitSDK(TRUE, TRUE)
  \/ \E u \in {HomeUrl, AboutUrl} : PushState(u)
  \/ Track("purchase")
  \/ ErrorEvent("error", "boom")
  \/ PageHidden

SpecHistory == InitHistory /\ [][NextHistory]_vars

\* The initial-load vitals (LCP, FID, FCP, TTFB) and their fallback timers.
NextInitialVitals ==
  \/ InitSDK(TRUE, TRUE)
  \/ Tick(fcpFallbackDelay)
  \/ PushState(AboutUrl)
  \/ Paint
  \/ LcpCandidate
  \/ FcpObserverCallback
  \/ LcpObserverCallback
  \/ FidObserverCallback
  \/ \E t \in wv.timers, exposed \in BOOLEAN : FallbackTimer(t, exposed)
  \/ Click("div")

SpecInitialVitals == Init /\ [][NextInitialVitals]_vars

\* The continuous vitals (CLS, INP) across a route change.
NextContinuousVitals ==
  \/ InitSDK(TRUE, TRUE)
  \/ Tick(mutationDebounce)
  \/ PushState(AboutUrl)
  \/ PageHidden
  \/ \E v \in ShiftValues, r, early \in BOOLEAN : LayoutShift(v, r, early)
  \/ \E d \in Durations, early \in BOOLEAN : EventTiming(d, early)
  \/ Click("div")
  \/ AnimationFrame

SpecContinuousVitals == Init /\ [][NextContinuousVitals]_vars

\* The loading-time trackers of an initial view and of a route change, their
\* activity sources and their timers.
NextLoading ==
  \/ InitSDK(TRUE, TRUE)
  \/ \E d \in {quietPeriod, maxWaitTime} : Tick(d)
  \/ PushState(AboutUrl)
  \/ XhrSend("/api/data")
  \/ \E e \in perf.inflight : FetchEnd(e)
  \/ ResourceObserverCallback
  \/ \E n \in DOMAIN lt.trackers : TrackerResourceObserver(n)
  \/ \E n \in DOMAIN lt.trackers : TrackerMutation(n)
  \/ \E t \in lt.resourceTimers : PendingResourceTimer(t)
  \/ \E n \in DOMAIN lt.trackers : CompletionCheck(n)
  \/ \E n \in DOMAIN lt.trackers : TrackerTimeout(n)

SpecLoading == Init /\ [][NextLoading]_vars

\* The data sender driven by view completions and by its clients, with its
\* batch timer, staggered sends, forced flush and a failing network.
NextSender ==
  \/ InitSDK(TRUE, TRUE)
  \/ \E d \in {batchStagger, batchTimeout} : Tick(d)
  \/ PushState(AboutUrl)
  \/ \E trigger \in {"completed", "error"} : SendViewData(trigger)
  \/ BatchTimer
  \/ \E p \in ds.staggered : StaggeredSend(p)
  \/ ProcessingReset
  \/ PageUnload

SpecSender == Init /\ [][NextSender]_vars

\* Immediate and batched sends while the network fails.
NextDelivery ==
  \/ InitSDK(TRUE, TRUE)
  \/ Tick(batchTimeout)
  \/ Offline
  \/ \E trigger \in {"completed", "error"} : SendViewData(trigger)
  \/ BatchTimer
  \/ \E p \in ds.staggered : StaggeredSend(p)
  \/ ProcessingReset

SpecDelivery == Init /\ [][NextDelivery]_vars

\* The host's commands and the page's events around initialization, with
\* every configuration and both document states.
NextCommands ==
  \/ \E apiKey, sampled \in BOOLEAN : InitSDK(apiKey, sampled)
  \/ DOMContentLoaded
  \/ Tick(batchTimeout)
  \/ Track("purchase")
  \/ \E u \in {AboutUrl, HomeUrl} : LocationChange(u)
  \/ PushState(AboutUrl)
  \/ PageHidden
  \/ PageUnload
  \/ BatchTimer
  \/ \E p \in ds.staggered : StaggeredSend(p)

SpecCommands == Init /\ [][NextCommands]_vars

\* Continuous updates: the manager's timers and listeners, the sender's
\* delayed sends and session clean-up, driven by the SDK's own calls.
NextUpdates ==
  \/ InitSDK(TRUE, TRUE)
  \/ \E d \in {updateIntervalMs, sessionCleanupDelay} : Tick(d)
  \/ Click("div")
  \/ AnimationFrame
  \/ ErrorEvent("error", "boom")
  \/ PushState(AboutUrl)
  \/ Continuous

SpecUpdates == Init /\ [][NextUpdates]_vars

\* Many view transitions while the manager is tracking and sending.
NextTransitions ==
  \/ InitSDK(TRUE, TRUE)
  \/ \E d \in {updateIntervalMs, sessionCleanupDelay} : Tick(d)
  \/ \E u \in {HomeUrl, AboutUrl} : PushState(u)
  \/ ErrorEvent("error", "boom")
  \/ IntervalCheck
  \/ \E p \in ds.delayed : DelayedUpdate(p)
  \/ PageUnload

SpecTransitions == InitTransitions /\ [][NextTransitions]_vars

\* Navigation signals of every kind, with URLs that differ in the origin,
\* the path, the query string, a hash and an empty hash.
RouteUrls ==
  Hrefs \cup {Url("/", "", <<"#">>),
              [Url("/", "", <<>>) EXCEPT !.origin = "https://other.example"]}

NextRoutes ==
  \/ InitSDK(TRUE, TRUE)
  \/ Tick(mutationDebounce)
  \/ \E u \in {AboutUrl, Url("/", "", <<"#", "t">>)} : LocationChange(u)
  \/ \E u \in RouteUrls : PushState(u)
  \/ \E u \in {Url("/", "?q=1", <<>>), Url("/", "", <<"#">>)} : ReplaceState(u)
  \/ PopState
  \/ HashChange
  \/ DomMutation
  \/ \E t \in rd.timers : MutationTimer(t)
  \/ \E u \in RouteUrls \ Hrefs : ManualTrigger(u)

SpecRoutes == InitTransitions /\ [][NextRoutes]_vars

\* The periodic check while resources arrive, on the initial view and on a
\* route-change view.
NextThresholds ==
  \/ InitSDK(TRUE, TRUE)
  \/ Tick(updateIntervalMs)
  \/ PushState(AboutUrl)
  \/ FetchStart("/app.js")
  \/ \E e \in perf.inflight : FetchEnd(e)
  \/ ResourceObserverCallback
  \/ IntervalCheck

SpecThresholds == Init /\ [][NextThresholds]_vars

\* Continuous updates, view completion by a route change or by hiding the
\* page, and the batch timers of the sender.
NextCompletion ==
  \/ InitSDK(TRUE, TRUE)
  \/ \E d \in {updateIntervalMs, sessionCleanupDelay} : Tick(d)
  \/ ErrorEvent("error", "boom")
  \/ PushState(AboutUrl)
  \/ PageHidden
  \/ IntervalCheck
  \/ \E p \in ds.delayed : DelayedUpdate(p)
  \/ BatchTimer
  \/ \E p \in ds.staggered : StaggeredSend(p)
  \/ ProcessingReset

SpecCompletion == Init /\ [][NextCompletion]_vars

\* The page is hidden and shown again between a successful initialization
\* and the unload of the page, while events and errors are reported.
NextVisibility ==
  \/ InitSDK(TRUE, TRUE)
  \/ Tick(mutationDebounce)
  \/ PageHidden
  \/ PageVisible
  \/ PushState(AboutUrl)
  \/ Track("purchase")
  \/ ErrorEvent("error", "boom")

SpecVisibility == Init /\ [][NextVisibility]_vars

\* hasSignificantChanges on enumerated metrics.
NextSignificance == EvaluateChanges

SpecSignificance == InitSignificance /\ [][NextSignificance]_vars

\* ================================================================== claims
Count(seq, P(_)) == Cardinality({i \in 1..Len(seq) : P(seq[i])})

ViewIds == 1..Len(views)

C2_CompletionMonotonic ==
  [][\A i \in ViewIds :
       views[i].isCompleted /\ ~views[i].isActive
         => /\ i <= Len(views')
            /\ views'[i].isCompleted
            /\ ~views'[i].isActive]_vars

\* C2 witness: the page became visible again after page-hidden completed
\* the current view, and the view is still completed.
C2_Witness ==
  /\ currentView # 0
  /\ views[currentView].completionReason = "page_hidden"
  /\ views[currentView].isCompleted
  /\ perf.visibilityState = "visible"

InactiveInputs ==
  [resource |-> [name |-> "/app.js", original_start_time |-> now,
                 start_time |-> now, filter_time |-> 0],
   ajax |-> [url |-> "/api/data", start_time |-> now],
   error |-> ErrorData(Cur, "error", "boom"),
   event |-> "purchase"]

\* C3: with no active view the five add operations fail and change
\* nothing, last-activity time included; and no step changes any field of
\* a completed view.
C3_InactiveWritesRejected ==
  [][/\ ~hasActiveView(Cur)
        => /\ addResource(Cur, InactiveInputs.resource) = [st |-> Cur, ok |-> FALSE]
           /\ addAjaxRequest(Cur, InactiveInputs.ajax) = [st |-> Cur, ok |-> FALSE]
           /\ addError(Cur, InactiveInputs.error) = [st |-> Cur, ok |-> FALSE]
           /\ addEvent(Cur, InactiveInputs.event) = [st |-> Cur, ok |-> FALSE]
           /\ \A m \in Metrics :
                updateWebVital(Cur, m, 1, 1) = [st |-> Cur, ok |-> FALSE]
           /\ updateActivity(Cur) = Cur
     /\ \A i \in ViewIds : views[i].isCompleted => views'[i] = views[i]]_vars

\* C3 witness: a resource entry reached the observer after page-hidden
\* completed the view and was dropped.
C3_Witness ==
  /\ currentView # 0
  /\ views[currentView].completionReason = "page_hidden"
  /\ rc.isObserving
  /\ rc.queue = <<>>
  /\ \E i \in 1..Len(perf.resources) :
       /\ shouldCollectResource(perf.resources[i])
       /\ \A k \in 1..Len(views[currentView].resources) :
            views[currentView].resources[k].name # perf.resources[i].name

\* C4: completing is idempotent, and each completed view has been handed to
\* the view-completed handler once, archived once and submitted to the data
\* sender once, whatever completed it; a view not completed has none.
C4_CompletedOnce ==
  /\ \A r1, r2 \in {"new_view_started", "page_hidden", "page_unload", "sdk_cleanup"} :
       completeView(completeView(Cur, r1), r2) = completeView(Cur, r1)
  /\ \A i \in ViewIds :
       LET n == IF views[i].isCompleted THEN 1 ELSE 0
           isView(x) == x.view = i
           hasId(x) == x.id = i
       IN /\ Count(sdk.handlerLog, isView) = n
          /\ Count(viewHistory, hasId) = n
          /\ Count(ds.received, isView) = n
          /\ Count(ds.transmitted, isView) + Count(ds.sendQueue, isView)
               + Cardinality({p \in ds.staggered : p.item.view = i}) <= n

\* C4 witness: the view completed by page-hidden has since also met page
\* unload and SDK cleanup.
C4_Witness ==
  /\ currentView # 0
  /\ views[currentView].completionReason = "page_hidden"
  /\ ~sdk.sessionId
  /\ sdk.architecture
  /\ Len(ds.transmitted) >= 1

ResourceNames(v) == {v.resources[k].name : k \in 1..Len(v.resources)}

\* C5: in a route-change view with an interaction baseline B, no collected
\* resource started before B.
C5_NoResourceBeforeBaseline ==
  \A i \in ViewIds :
    views[i].type = "route_change" /\ views[i].interactionBaseline # 0
      => \A k \in 1..Len(views[i].resources) :
           views[i].resources[k].original_start_time >= views[i].interactionBaseline

\* C6: while the initial view is active, every collectable entry of the
\* performance timeline that has reached the collector is in the view's
\* resource list whatever its start time, and was admitted under filter
\* time 0.
C6_InitialViewKeepsAll ==
  \A i \in ViewIds :
    views[i].type = "initial"
      => /\ \A k \in 1..Len(views[i].resources) : views[i].resources[k].filter_time = 0
         /\ views[i].isActive
              => \A n \in 1..Len(perf.resources) :
                   LET e == perf.resources[n]
                   IN shouldCollectResource(e)
                      /\ (\A q \in 1..Len(rc.queue) : rc.queue[q] # e)
                        => e.name \in ResourceNames(views[i])

\* C6 witness: the active initial view received, after it had started, a
\* resource that began before the view did.
C6_Witness ==
  /\ currentView = 1
  /\ views[1].isActive
  /\ views[1].lastActivityTime > views[1].startTime
  /\ \E k \in 1..Len(views[1].resources) :
       views[1].resources[k].original_start_time < views[1].startTime

\* C7: a view's resource list holds each URL at most once, and the
\* processed-URL set holds only URLs recorded in the current view.
C7_UrlOncePerView ==
  /\ \A i \in ViewIds :
       \A k, l \in 1..Len(views[i].resources) :
         views[i].resources[k].name = views[i].resources[l].name => k = l
  /\ currentView # 0 => rc.processedUrls \subseteq ResourceNames(views[currentView])

\* C7 witness: the timeline holds two entries of one URL, the initial view
\* and the route-change view both recorded that URL.
C7_Witness ==
  /\ Len(views) = 2
  /\ \E u \in ResourceNames(views[1]) \cap ResourceNames(views[2]) :
       \E m, n \in 1..Len(perf.resources) :
         m # n /\ perf.resources[m].name = u /\ perf.resources[n].name = u

\* C8: a route-change view's web-vitals map never holds LCP, FID, FCP or
\* TTFB.
C8_RouteChangeHasNoInitialVitals ==
  \A i \in ViewIds :
    views[i].type = "route_change"
      => \A m \in InitialOnlyMetrics : views[i].webVitals[m] = NoVital

\* C9: every web vital held by a view was written by a callback that the
\* view's own collector set-up registered.
C9_NoStaleCallbackWrites ==
  \A i \in ViewIds : \A m \in Metrics : views[i].webVitals[m].owner \in {0, i}

\* C10: no step lowers a view's CLS value, and a step that raises it
\* delivers a layout shift without recent input that started at or after
\* the view's start, raising it by that shift's value.
C10_ClsMonotone ==
  [][\A i \in ViewIds :
       LET before == views[i].webVitals["CLS"].value
           after == views'[i].webVitals["CLS"].value
       IN /\ after >= before
          /\ after # before
               => /\ Len(perf'.layoutShifts) = Len(perf.layoutShifts) + 1
                  /\ LET entry == perf'.layoutShifts[Len(perf'.layoutShifts)]
                     IN /\ ~entry.hadRecentInput
                        /\ entry.startTime >= views[i].startTime
                        /\ after = before + entry.value]_vars

\* C10 witness: a route-change view has accumulated two layout shifts and
\* passed over one that followed recent input.
C10_Witness ==
  /\ Len(views) = 2
  /\ views[2].webVitals["CLS"].value = 3
  /\ Len(perf.layoutShifts) = 3
  /\ \A n \in 1..3 : perf.layoutShifts[n].startTime >= views[2].startTime

TrackerIds == DOMAIN lt.trackers

TrackerQuiet(t) ==
  /\ now - t.lastActivityTime >= quietPeriod
  /\ t.pendingRequests = {}
  /\ t.pendingResources = {}

\* C11: a tracker completes with reason activity_quiet exactly when, at the
\* completion check, no activity was recorded in the trailing 200 ms and
\* nothing is pending; with any other reason it completes only once 20000 ms
\* have elapsed from its baseline, and the reason is a timeout variant.
C11_QuietOrTimeout ==
  [][\A n \in TrackerIds :
       (~lt.trackers[n].isComplete /\ lt'.trackers[n].isComplete) =>
         LET t == lt.trackers[n]
             reason == lt'.trackers[n].reason
         IN /\ reason = "activity_quiet" => TrackerQuiet(t)
            /\ (reason # "timeout" /\ TrackerQuiet(t)) => reason = "activity_quiet"
            /\ reason # "activity_quiet" =>
                 /\ now - t.baselineTime >= 20000
                 /\ reason \in {"max_time_reached", "route_change_timeout",
                                 "timeout"}]_vars

Installed == {lt.xhrOpen, lt.xhrSend, lt.fetch}

\* C12: at most one tracker's wrappers are installed on XHR open/send and
\* fetch at a time (an installed wrapper wraps the page's own function), a
\* change of a global that is not a new tracker's patch restores what a
\* tracker captured at its start, and when every tracker has completed or
\* been cleaned up the globals are the page's own functions again.
C12_SinglePatchRestored ==
  /\ [](\A n \in TrackerIds :
          n \in Installed =>
            /\ Installed = {n}
            /\ lt.trackers[n].originalXHROpen = <<0>>
            /\ lt.trackers[n].originalXHRSend = <<0>>
            /\ lt.trackers[n].originalFetch = <<0>>)
  /\ []((\A n \in TrackerIds : ~lt.trackers[n].observing) => Installed = {0})
  /\ [][(<<lt.xhrOpen, lt.xhrSend, lt.fetch>> # <<lt.xhrOpen, lt.xhrSend, lt.fetch>>'
          /\ Len(lt'.trackers) = Len(lt.trackers)) =>
           \E n \in TrackerIds :
             /\ <<lt'.xhrOpen>> = lt.trackers[n].originalXHROpen
             /\ <<lt'.xhrSend>> = lt.trackers[n].originalXHRSend
             /\ <<lt'.fetch>> = lt.trackers[n].originalFetch]_vars

\* Tracker 1 was replaced at a route change, tracker 2 patched the globals
\* and has since been completed, and both are cleaned up.
C12_Witness ==
  /\ Len(lt.trackers) = 2
  /\ lt.trackers[1].isComplete
  /\ lt.trackers[1].reason = "timeout"
  /\ lt.trackers[2].isComplete
  /\ lt.trackers[2].originalFetch = <<0>>
  /\ Installed = {0}
\* The requests handed to the transport during the step.
NewlySent == {i \in 1..Len(ds'.transmitted) : i > Len(ds.transmitted)}

SamePayload(a, b) == a.object = b.object

ImmediateTriggers == {"new_view_started", "route_change_trigger", "page_hidden",
                      "page_unload", "error", "critical_error"}

\* C13: a payload accepted by sendViewData is handed to the transport at once
\* exactly when its trigger is new_view_started (a view completed because a
\* new view started), route_change_trigger, page_hidden, page_unload, error
\* or critical_error; with any other trigger it goes to the batch queue.
C13_ImmediateIffTrigger ==
  [][(Len(ds'.received) = Len(ds.received) + 1 /\ sdk.sessionId) =>
       LET r == ds'.received[Len(ds'.received)]
           o == Len(ds'.received)
           immediate == \E i \in NewlySent :
                          /\ ds'.transmitted[i].object = o
                          /\ ds'.transmitted[i].trigger = r.trigger
                          /\ ds'.transmitted[i].send_options.immediate
           queued == \/ \E i \in 1..Len(ds'.sendQueue) : ds'.sendQueue[i].object = o
                     \/ \E p \in ds'.staggered : p.item.object = o
                     \/ \E i \in NewlySent :
                           /\ ds'.transmitted[i].object = o
                           /\ ds'.transmitted[i].trigger = "force_flush"
       IN IF r.trigger \in ImmediateTriggers
          THEN immediate /\ ~queued
          ELSE queued /\ ~immediate]_vars

\* C14: after every handler that enqueues, the batch queue holds fewer than
\* maxBatchSize payloads, also while an earlier batch is being sent.
C14_QueueBelowBatchSize == Len(ds.sendQueue) < maxBatchSize

\* C15: every payload in the batch queue has its flush scheduled: a batch
\* timer is pending and is due no later than batchTimeout after the payload
\* was enqueued.
C15_FlushScheduledInTime ==
  \A i \in 1..Len(ds.sendQueue) :
    /\ ds.batchTimer # 0
    /\ ds.batchTimer <= ds.sendQueue[i].send_timestamp + batchTimeout

\* C16: a failed immediate send is followed, in the same performSend, by
\* exactly one retry of the payload in synchronous mode; a failed batched
\* send is followed by none; no failed payload returns to the queue.
C16_RetryOnceSync ==
  [][\A i \in NewlySent :
       LET e == ds'.transmitted[i]
           retries == {j \in NewlySent :
                         /\ j > i
                         /\ SamePayload(ds'.transmitted[j], e)
                         /\ ds'.transmitted[j].trigger = e.trigger}
       IN ~e.delivered =>
            /\ (e.send_options.immediate /\ ~e.send_options.sync) =>
                  /\ Cardinality(retries) = 1
                  /\ \A j \in retries : ds'.transmitted[j].send_options.sync
            /\ e.send_options.batch => retries = {}
            /\ \A k \in 1..Len(ds'.sendQueue) :
                  SamePayload(ds'.sendQueue[k], e) =>
                    \E m \in 1..Len(ds.sendQueue) : ds.sendQueue[m] = ds'.sendQueue[k]]_vars

\* The payloads accepted for batching and not yet handed to the transport.
PendingBatched ==
  {ds.sendQueue[i] : i \in 1..Len(ds.sendQueue)} \cup {p.item : p \in ds.staggered}

\* C17: when the page-unload handler (whose last call is forceFlush) returns,
\* every payload that was pending in the batch pipeline has been handed to the
\* transport exactly once in synchronous mode, the queue is empty, no batch
\* timer is pending and no staggered send of an earlier batch is left.
C17_ForceFlushDrains ==
  [][PageUnload =>
       /\ ds'.sendQueue = <<>>
       /\ ds'.batchTimer = 0
       /\ ds'.staggered = {}
       /\ \A q \in PendingBatched :
            Cardinality({i \in NewlySent :
                           /\ SamePayload(ds'.transmitted[i], q)
                           /\ ds'.transmitted[i].send_options.sync}) = 1]_vars

\* ------------------------------------------------------------------- C18
\* The resource-filter baseline the claim gives a route-change view: the
\* interaction baseline when the view has one, else the trigger time.
ClaimedFilterBaseline(v) ==
  IF v.interactionBaseline # 0 THEN v.interactionBaseline ELSE v.routeTriggerTime

\* C18: a route change with trigger time T whose most recent navigational
\* interaction happened at I with T - I <= 5000 ms creates a view whose
\* interaction baseline is I, and that view's resources are filtered against
\* I; otherwise the view has no interaction baseline and its resources are
\* filtered against T.
C18_InteractionBaselineFilters ==
  /\ [][\/ Len(views') # Len(views) + 1
        \/ views'[Len(views')].type # "route_change"
        \/ LET v == views'[Len(views')]
               T == v.routeTriggerTime
               I == rd.lastUserInteractionTime
           IN v.interactionBaseline =
                IF I # 0 /\ T - I <= userInteractionTimeout THEN I ELSE 0]_vars
  /\ [](\A i \in ViewIds :
          views[i].type = "route_change"
            => \A k \in 1..Len(views[i].resources) :
                 views[i].resources[k].filter_time = ClaimedFilterBaseline(views[i]))

\* ------------------------------------------------------------------- C19
\* The views completed so far, in completion order.
CompletedIds == [k \in 1..Len(sdk.handlerLog) |-> sdk.handlerLog[k].view]

LastOf(seq, n) ==
  IF Len(seq) <= n THEN seq ELSE SubSeq(seq, Len(seq) - n + 1, Len(seq))

\* C19: the view history holds at most 10 entries, which are the most
\* recently completed views in completion order; the oldest entry is the one
\* evicted.
C19_HistoryLastTen ==
  /\ Len(viewHistory) <= maxViewHistory
  /\ [k \in 1..Len(viewHistory) |-> viewHistory[k].id]
       = LastOf(CompletedIds, maxViewHistory)

\* C19 witness: an eleventh view has completed and the first one is gone.
C19_Witness ==
  /\ Len(sdk.handlerLog) > maxViewHistory
  /\ Len(viewHistory) = maxViewHistory
  /\ viewHistory[1].id = 2

\* ------------------------------------------------------------------- C20
\* C20: the entry archived for a view that completes carries, in resources,
\* ajaxRequests, errors and events, the numbers of items the view's four
\* lists hold at completion, and is otherwise the view.
C20_ArchiveKeepsCounts ==
  [][\A i \in ViewIds :
       ~views[i].isCompleted /\ views'[i].isCompleted
         => LET h == viewHistory'[Len(viewHistory')]
                v == views'[i]
            IN /\ h.id = i
               /\ h.resources = Len(v.resources)
               /\ h.ajaxRequests = Len(v.ajaxRequests)
               /\ h.errors = Len(v.errors)
               /\ h.events = Len(v.events)
               /\ {h.resources, h.ajaxRequests, h.errors, h.events} \subseteq Nat
               /\ h = HistoryEntry(v)]_vars

\* C20 witness: an archived view had events and errors in different numbers.
C20_Witness ==
  \E k \in 1..Len(viewHistory) :
    /\ viewHistory[k].events > 1
    /\ viewHistory[k].errors = 1
    /\ Len(views[viewHistory[k].id].events) = viewHistory[k].events

\* ------------------------------------------------------------------- C21
\* C21: once init has disabled the SDK (no API key, or the session is not
\* sampled) there is no session, no view and no route detector, and nothing
\* has been handed to the transport, whatever the host and the page do
\* afterwards.
C21_DisabledIsSilent ==
  sdk.disabled
    => /\ ~sdk.sessionId
       /\ ~sdk.isInitialized
       /\ ~sdk.pendingInit
       /\ views = <<>>
       /\ currentView = 0
       /\ ~sdk.architecture
       /\ rd.timers = {}
       /\ ds.transmitted = <<>>
       /\ ds.sendQueue = <<>>

\* C21 witness: the disabled SDK has been given track commands, the page has
\* navigated and time has passed.
C21_Witness ==
  /\ sdk.disabled
  /\ perf.events = MaxEvents
  /\ href = AboutUrl
  /\ now > batchTimeout

\* ------------------------------------------------------------------- C22
\* The user events recorded in a view.
Tracked(v) == Count(v.events, LAMBDA e : e = "purchase")

\* C22: when initialization completes, every track command the host has
\* issued before, while init had not been called or was waiting for
\* DOMContentLoaded, is executed: its event is in the initial view.
C22_EarlyCommandsReplayed ==
  [][~sdk.isInitialized /\ sdk'.isInitialized
       => Tracked(views'[currentView']) = perf.events']_vars

\* ------------------------------------------------------------------- C23
\* C23: no view's error list holds two errors with the same error_id,
\* whatever sequence of error events, rejections and console.error calls
\* was captured.
C23_NoDuplicateErrors ==
  \A i \in ViewIds :
    \A k, l \in 1..Len(views[i].errors) :
      k # l => views[i].errors[k].error_id # views[i].errors[l].error_id

\* ------------------------------------------------------------------- C24
\* The filter time of a route-change view under the priority interaction
\* baseline, route-trigger time, view-start time.
ResolvedFilterTime(v) ==
  IF v.interactionBaseline # 0 THEN v.interactionBaseline
  ELSE IF v.routeTriggerTime # 0 THEN v.routeTriggerTime
  ELSE v.startTime

\* C24: every resource of a route-change view was admitted, by the scan at
\* view start or by the observer callback, under the one filter time
\* resolved with the priority interaction baseline > route-trigger time >
\* view-start time, and started at or after it; and the scan at view start
\* collects every collectable buffer entry that started at or after it.
C24_OneFilterTimeBothPaths ==
  /\ [](\A i \in ViewIds :
          views[i].type = "route_change"
            => \A k \in 1..Len(views[i].resources) :
                 LET r == views[i].resources[k]
                 IN /\ r.filter_time = ResolvedFilterTime(views[i])
                    /\ r.original_start_time >= ResolvedFilterTime(views[i]))
  /\ [][Len(views') = Len(views) + 1 /\ views'[Len(views')].type = "route_change"
         => \A n \in 1..Len(perf'.resources) :
              LET e == perf'.resources[n]
                  v == views'[Len(views')]
              IN shouldCollectResource(e) /\ e.startTime >= ResolvedFilterTime(v)
                   => e.name \in ResourceNames(v)]_vars

\* ------------------------------------------------------------------- C25
\* C25: every resource in a view's resource list that qualifies as AJAX has
\* an entry with the same URL in that view's AJAX-request list, whichever
\* path collected it.
C25_AjaxAlsoRecorded ==
  \A i \in ViewIds :
    \A k \in 1..Len(views[i].resources) :
      isAjaxRequest(views[i].resources[k])
        => \E a \in 1..Len(views[i].ajaxRequests) :
             views[i].ajaxRequests[a].url = views[i].resources[k].name

\* ------------------------------------------------------------------- C26
\* C26: the INP value recorded in a view never decreases, whatever the
\* interleaving of event-entry observations and manual listener
\* measurements.
C26_InpNeverDecreases ==
  [][\A i \in ViewIds :
       views'[i].webVitals["INP"].value >= views[i].webVitals["INP"].value]_vars

\* ------------------------------------------------------------------- C27
\* C27: a tracker completes at most once and complete is terminal: a
\* complete tracker is not tracking and has pushed exactly one loading_time
\* update, a tracker not complete has pushed none, and no step (activity,
\* completion check, pending-resource timer, absolute timer) changes a
\* complete tracker other than by consuming its absolute timer.
C27_CompleteIsTerminal ==
  /\ [](\A n \in TrackerIds :
          LET t == lt.trackers[n]
          IN /\ t.isComplete => ~t.isTracking /\ t.updates = 1
             /\ ~t.isComplete => t.updates = 0)
  /\ [][\A n \in TrackerIds :
          lt.trackers[n].isComplete
            => [lt'.trackers[n] EXCEPT !.timeout = 0]
                 = [lt.trackers[n] EXCEPT !.timeout = 0]]_vars

\* C27 witness: a tracker completed by its completion check has since met
\* its absolute timer.
C27_Witness ==
  \E n \in TrackerIds :
    /\ lt.trackers[n].isComplete
    /\ lt.trackers[n].reason = "activity_quiet"
    /\ lt.trackers[n].timeout = 0
    /\ now >= maxWaitTime

\* ------------------------------------------------------------------- C28
\* The baseline the claim gives the tracker of view v.
ExpectedBaseline(v) ==
  IF v.type = "initial" THEN fetchStart
  ELSE IF v.routeTriggerTime # 0 THEN v.routeTriggerTime
  ELSE v.startTime

\* C28: when a tracker completes while a view is active, the loading_time it
\* writes is the last activity time it had recorded minus the baseline of its
\* view (fetch-start for an initial view, the route-trigger time for a
\* route change), is not negative, and leaves out the time from the last
\* activity to the completion.
C28_LoadingTimeIsLastActivity ==
  [][\A n \in TrackerIds :
       ~lt.trackers[n].isComplete /\ lt'.trackers[n].isComplete /\ hasActiveView(Cur)
         => LET t == lt.trackers[n]
                written == views'[currentView'].webVitals["loading_time"]
                baseline == ExpectedBaseline(views[t.view])
            IN /\ written.value = t.lastActivityTime - baseline
               /\ written.value >= 0
               /\ written.value <= now - baseline
               /\ lt'.trackers[n].reason = "activity_quiet"
                    => written.value <= now - baseline - quietPeriod]_vars

\* C28 witness: a route-change tracker with activity after its baseline has
\* completed on a quiet period and its view holds the loading time.
C28_Witness ==
  \E n \in TrackerIds :
    LET t == lt.trackers[n]
    IN /\ t.isComplete
       /\ t.viewType = "route_change"
       /\ t.reason = "activity_quiet"
       /\ t.lastActivityTime > t.baselineTime
       /\ views[t.view].webVitals["loading_time"].value
            = t.lastActivityTime - views[t.view].routeTriggerTime

\* ------------------------------------------------------------------- C29
\* C29: a tracker completes only while it is the collector's tracker and its
\* view is the current view, and the loading_time of a view is written by
\* the tracker started for that view only.
C29_SupersededNeverCompletes ==
  /\ [](\A i \in ViewIds : views[i].webVitals["loading_time"].owner \in {0, i})
  /\ [][\A n \in TrackerIds :
          ~lt.trackers[n].isComplete /\ lt'.trackers[n].isComplete
            => n = lt.current /\ lt.trackers[n].view = currentView]_vars

\* ------------------------------------------------------------------- C30
\* The continuous updates of view v that were produced so far: those handed
\* to the transmitter and those waiting for their delay.
ProducedUpdates(v) ==
  {ds.transmitted[i].object : i \in {j \in DOMAIN ds.transmitted :
       ds.transmitted[j].type = "continuous_update" /\ ds.transmitted[j].view = v}}
  \cup {p.payload.object : p \in {q \in ds.delayed : q.payload.view = v}}

FirstUpdatesSent(v) ==
  {i \in DOMAIN ds.transmitted :
     /\ ds.transmitted[i].type = "continuous_update"
     /\ ds.transmitted[i].view = v
     /\ ~ds.transmitted[i].is_update_only}

\* A step that produces a continuous update: the first one of its view is
\* handed to the transmitter in that step, with is_update_only false, and the
\* view's session is marked as created; a later one is held back with a due
\* time 3 s ahead.  A step that hands an update-only payload to the
\* transmitter happens 3 s or more after the payload was produced.
ContinuousUpdateStep ==
  LET n == Len(ds.transmitted)
      handed == {i \in DOMAIN ds'.transmitted :
                   i > n /\ ds'.transmitted[i].type = "continuous_update"}
  IN /\ ds'.produced # ds.produced =>
          LET k == 0 - ds'.produced
              sent == {i \in handed : ds'.transmitted[i].object = k}
              held == {p \in ds'.delayed : p.payload.object = k}
          IN /\ ds'.produced = ds.produced + 1
             /\ Cardinality(sent) + Cardinality(held) = 1
             /\ \A i \in sent :
                  /\ ProducedUpdates(ds'.transmitted[i].view) = {}
                  /\ ~ds'.transmitted[i].is_update_only
                  /\ ds'.transmitted[i].timestamp = now
                  /\ ds'.transmitted[i].view \in ds'.createdViewSessions
             /\ \A p \in held :
                  /\ ProducedUpdates(p.payload.view) # {}
                  /\ p.payload.is_update_only
                  /\ p.payload.timestamp = now
                  /\ p.due = now + continuousUpdateDelay
     /\ \A i \in handed :
          ds'.transmitted[i].is_update_only =>
            /\ now >= ds'.transmitted[i].timestamp + continuousUpdateDelay
            /\ \E p \in ds.delayed : p.payload.object = ds'.transmitted[i].object

\* C30: for each view the first continuous update goes to the transmitter at
\* once and marks the view's session as created, every later continuous
\* update of the view goes to the transmitter 3 s after it was produced, and
\* at most one continuous update per view is sent with is_update_only false.
C30_FirstUpdateImmediateLaterDelayed ==
  /\ [](\A v \in DOMAIN views : Cardinality(FirstUpdatesSent(v)) <= 1)
  /\ [][ContinuousUpdateStep]_vars

\* A view whose first update was sent at once and whose second update was
\* sent after its delay.
C30_Witness ==
  \E v \in DOMAIN views :
    \E i, j \in DOMAIN ds.transmitted :
      /\ i \in FirstUpdatesSent(v)
      /\ ds.transmitted[j].type = "continuous_update"
      /\ ds.transmitted[j].view = v
      /\ ds.transmitted[j].is_update_only
      /\ ds.transmitted[j].send_options.immediate
      /\ ds.transmitted[i].send_timestamp = ds.transmitted[i].timestamp
      /\ v \in ds.createdViewSessions

\* ------------------------------------------------------------------- C31
\* The conditions the specification lists, relative to the baseline `last'
\* (<<>> for the empty baseline, where every vital is null and every count 0).
ListedChange(current, last) ==
  LET lastVital(m) == IF last = <<>> THEN 0 ELSE last[1].webVitals[m]
      lastResources == IF last = <<>> THEN 0 ELSE last[1].resourceCount
      lastAjax == IF last = <<>> THEN 0 ELSE last[1].ajaxCount
      lastErrors == IF last = <<>> THEN 0 ELSE last[1].errorCount
      distance(a, b) == IF a >= b THEN a - b ELSE b - a
  IN \/ distance(current.webVitals["CLS"], lastVital("CLS")) >= 1
     \/ distance(current.webVitals["INP"], lastVital("INP")) >= 50
     \/ \E m \in Metrics : lastVital(m) = 0 /\ current.webVitals[m] # 0
     \/ current.resourceCount - lastResources >= 5
     \/ current.ajaxCount - lastAjax >= 3
     \/ current.errorCount - lastErrors >= 1

\* C31: hasSignificantChanges returns true whenever, relative to the last
\* sent baseline, CLS changed by 0.01 or more, INP changed by 50 ms or more,
\* a vital that was null has a value, the resource count grew by 5 or more,
\* the AJAX count grew by 3 or more, or the error count grew.
C31_ListedChangesAreSignificant ==
  (~sig.pending /\ sig.result # <<>> /\ ListedChange(sig.current[1], sig.last))
    => sig.result[1]

\* C31 witness: against a baseline that is not empty, the only listed change
\* is a growth of exactly five resources, and the result is true.
C31_Witness ==
  /\ sig.result = <<TRUE>>
  /\ sig.last # <<>>
  /\ sig.current[1].resourceCount - sig.last[1].resourceCount = 5
  /\ sig.current[1].webVitals = sig.last[1].webVitals
  /\ sig.current[1].ajaxCount = sig.last[1].ajaxCount
  /\ sig.current[1].errorCount = sig.last[1].errorCount

\* ------------------------------------------------------------------- C32
\* C32: a step that starts a new view leaves the manager's last sent
\* metrics empty; when it replaces an earlier view, the tracking flag, the
\* periodic timer, the registered listeners and the pending checks are what
\* they were.
C32_NewViewOnlyResetsBaseline ==
  [][Len(views') > Len(views) =>
       /\ cm'.lastSentMetrics = <<>>
       /\ views # <<>> => cm' = [cm EXCEPT !.lastSentMetrics = <<>>]]_vars

\* C32 witness: the third or a later view has just started, the manager is
\* tracking with its timer set, its baseline is empty, and an update of the
\* previous view had been sent.
C32_Witness ==
  /\ Len(views) >= 3
  /\ hasActiveView(Cur)
  /\ cm.isTracking /\ cm.interval # 0
  /\ cm.lastSentMetrics = <<>>
  /\ ProducedUpdates(currentView) = {}
  /\ ProducedUpdates(currentView - 1) # {}

\* ------------------------------------------------------------------- C33
\* What the specification calls a meaningful change.
ListedMeaningful(oldUrl, newUrl) ==
  \/ oldUrl.origin # newUrl.origin
  \/ oldUrl.pathname # newUrl.pathname
  \/ oldUrl.hash # newUrl.hash /\ (Len(oldUrl.hash) > 1 \/ Len(newUrl.hash) > 1)

\* The outcome of a navigation signal that carries URL u.
RouteOutcome(u) ==
  IF u = rd.currentUrl
  THEN /\ rd'.currentUrl = rd.currentUrl
       /\ UNCHANGED <<views, currentView, viewHistory, rc, wv, lt, cm, ds>>
  ELSE IF ListedMeaningful(rd.currentUrl, u)
  THEN /\ rd'.currentUrl = u
       /\ Len(views') = Len(views) + 1
       /\ currentView' = Len(views')
       /\ views'[currentView'].type = "route_change"
       /\ views'[currentView'].url = u
       /\ views'[currentView'].isActive
  ELSE /\ rd'.currentUrl = u
       /\ UNCHANGED <<views, currentView, viewHistory, rc, wv, lt, cm, ds>>

C34_StartNewViewOrder ==
  [][Len(views') > Len(views) =>
       LET hadActive == currentView # 0 /\ ~views[currentView].isCompleted
           new == views'[currentView']
       IN /\ sdk'.viewStart =
               <<"_resetPerformanceObservers">>
               \o (IF hadActive THEN <<"completeView">> ELSE <<>>)
               \o <<"createView", "resetCollectors", "startCollectorsForView">>
          /\ currentView' = Len(views')
          /\ Len(views') = Len(views) + 1
          /\ new.isActive /\ ~new.isCompleted
          /\ hadActive =>
               /\ views'[currentView].isCompleted
               /\ views'[currentView].completionReason = "new_view_started"
          /\ wv'.owner = currentView'
          /\ rc'.isObserving]_vars

\* C34 witness: the second view was started after the first one had been
\* completed by a hidden page, so no completion was part of the call.
C34_Witness ==
  /\ Len(views) = 2
  /\ views[1].completionReason = "page_hidden"
  /\ sdk.viewStart = <<"_resetPerformanceObservers", "createView",
                       "resetCollectors", "startCollectorsForView">>
  /\ hasActiveView(Cur)

\* ------------------------------------------------------------------- C35
\* C35: when startNewView installs a view, no web-vitals observer, no
\* resource observer, no interaction listener, no tracker observer and no
\* XHR or fetch wrapper is attached, and the listeners and trackers attached
\* afterwards belong to the installed view.
C35_DetachedBeforeInstall ==
  /\ sdk.attachedAtInstall.observers = {}
  /\ ~sdk.attachedAtInstall.resourceObserver
  /\ sdk.attachedAtInstall.listeners = {}
  /\ sdk.attachedAtInstall.trackers = {}
  /\ sdk.attachedAtInstall.patches = {}
  /\ hasActiveView(Cur) =>
       /\ wv.inpListeners \subseteq {currentView}
       /\ \A n \in DOMAIN lt.trackers :
            lt.trackers[n].observing => lt.trackers[n].view = currentView

\* ------------------------------------------------------------------- C36
\* C36: while the tracker of the current view is tracking and has not
\* completed, XMLHttpRequest.prototype.send and window.fetch are that
\* tracker's wrappers.
C36_TrackingTrackerKeepsWrappers ==
  (/\ hasActiveView(Cur)
   /\ lt.current # 0
   /\ lt.trackers[lt.current].view = currentView
   /\ lt.trackers[lt.current].isTracking
   /\ ~lt.trackers[lt.current].isComplete)
    => lt.xhrSend = lt.current /\ lt.fetch = lt.current

\* ------------------------------------------------------------------- C37
\* C37: a check sends a continuous update only when, against the metrics
\* last sent (the empty baseline after a view start included), a vital
\* changed, the resources grew by five or more, the AJAX requests grew by
\* three or more, or an error was added.
C37_NoUpdateBelowThresholds ==
  [][ds'.produced > ds.produced =>
       ListedChange(getCurrentContinuousMetrics(Cur), cm.lastSentMetrics)]_vars

\* ------------------------------------------------------------------- C38
\* C38: in the log of the payloads handed to the transmitter, no continuous
\* update of a view comes after a view payload (the completion payload) of
\* the same view.
\* the same view.  Only an update whose 3 s delay was still running when the
\* completion payload was handed over is counted, so that a delay callback
\* running late is no violation.
C38_CompletionPayloadIsLast ==
  \A i, j \in DOMAIN ds.transmitted :
     (/\ i < j
      /\ ds.transmitted[i].type = "none"
      /\ ds.transmitted[j].type = "continuous_update"
      /\ ds.transmitted[i].send_timestamp
           <= ds.transmitted[j].send_timestamp + continuousUpdateDelay)
       => ds.transmitted[i].view # ds.transmitted[j].view

\* ------------------------------------------------------------------- C39
\* C39: after a successful initialization and before the page is unloaded,
\* there is an active view whenever the page is visible.
C39_VisiblePageHasActiveView ==
  (sdk.isInitialized /\ ~sdk.disabled /\ perf.visibilityState = "visible")
    => hasActiveView(Cur)

\* ------------------------------------------------------------------- C40
\* C40: in a step that starts the collectors for a new view, every resource
\* notification of the scan of the existing buffer entries goes to the
\* tracker created for that view, and when the buffer holds an entry that
\* started at or after that tracker's baseline the tracker has recorded
\* resource activity.
C40_ScanReachesNewTracker ==
  [][Len(lt'.trackers) = Len(lt.trackers) + 1 =>
       LET n == Len(lt'.trackers)
           notified == lt'.resourceTimers \ lt.resourceTimers
       IN /\ \A t \in notified : t.tracker = n
          /\ (\E i \in DOMAIN perf.resources :
                 perf.resources[i].startTime >= lt'.trackers[n].baselineTime)
               => "resource" \in lt'.trackers[n].activitySources]_vars

====
